---- MODULE Spec2Model ----
(***************************************************************************)
(* A model of semapp's Process class (src/Processing/processing.py): the   *)
(* recipe parser and coordinate transform, the TIFF stack splitter, and    *)
(* the rename / clean passes over a wafer directory.                       *)
(*                                                                         *)
(* File names are modelled literally, as sequences of one-character        *)
(* strings, so that split('_'), "page" in f, startswith, endswith, int()   *)
(* and the lexicographic sort act on them as Python's do.  A directory is  *)
(* a function from the names it holds to their contents.                   *)
(***************************************************************************)
EXTENDS Integers, Sequences, FiniteSets, TLC

----------------------------------------------------------------------------
(* Bounds of the model.                                                    *)

\* the merged stack data.tif holds 1..MaxPages pages
MaxPages == 3
\* a recipe lists 0..MaxDefects defect rows
MaxDefects == 2
\* the capture settings table holds 0..MaxSettings rows
MaxSettings == 2

----------------------------------------------------------------------------
(* Python strings.                                                         *)

\* the characters that occur in the model's names, in code-point order
Alphabet ==
    << "-", ".", "0", "1", "2", "3", "4", "5", "6", "7", "8", "9",
       "B", "C", "E", "I", "R", "S", "T", "_",
       "a", "b", "d", "e", "f", "g", "h", "i", "l", "n", "o", "p", "r", "s",
       "t", "w", "x", "y" >>

\* ord(c), up to an order-preserving renumbering
Ord(c) == CHOOSE i \in 1..Len(Alphabet) : Alphabet[i] = c

DigitChars == << "0", "1", "2", "3", "4", "5", "6", "7", "8", "9" >>

IsDigit(c) == \E i \in 1..10 : DigitChars[i] = c

DigitVal(c) == (CHOOSE i \in 1..10 : DigitChars[i] = c) - 1

\* str.lower() of one character
LowerChar(c) ==
    CASE c = "B" -> "b"
      [] c = "C" -> "c"
      [] c = "E" -> "e"
      [] c = "I" -> "i"
      [] c = "R" -> "r"
      [] c = "T" -> "t"
      [] c = "S" -> "s"
      [] OTHER -> c

\* s.lower()
Lower(s) == [i \in 1..Len(s) |-> LowerChar(s[i])]

\* s.startswith(pre)
StartsWith(s, pre) == Len(pre) <= Len(s) /\ SubSeq(s, 1, Len(pre)) = pre

\* s.endswith(suf)
EndsWith(s, suf) ==
    Len(suf) <= Len(s) /\ SubSeq(s, Len(s) - Len(suf) + 1, Len(s)) = suf

\* sub in s
Contains(s, sub) ==
    \E i \in 0..(Len(s) - Len(sub)) : SubSeq(s, i + 1, i + Len(sub)) = sub

\* s.split(sep), sep one character
RECURSIVE Split(_, _)
Split(s, sep) ==
    IF \A i \in 1..Len(s) : s[i] # sep
    THEN << s >>
    ELSE LET i == CHOOSE k \in 1..Len(s) :
                      s[k] = sep /\ \A j \in 1..(k - 1) : s[j] # sep
         IN  << SubSeq(s, 1, i - 1) >> \o Split(SubSeq(s, i + 1, Len(s)), sep)

\* the digits of a string that int() accepts, after an optional sign
IntBody(t) == IF Len(t) > 0 /\ t[1] = "-" THEN Tail(t) ELSE t

\* whether int(t) returns (otherwise it raises ValueError)
IsIntLiteral(t) ==
    Len(IntBody(t)) > 0 /\ \A i \in 1..Len(IntBody(t)) : IsDigit(IntBody(t)[i])

RECURSIVE NatOf(_)
NatOf(ds) ==
    IF ds = << >> THEN 0
    ELSE 10 * NatOf(SubSeq(ds, 1, Len(ds) - 1)) + DigitVal(ds[Len(ds)])

\* int(t), for a t that int() accepts
IntOf(t) == IF Len(t) > 0 /\ t[1] = "-" THEN 0 - NatOf(Tail(t)) ELSE NatOf(t)

\* str(n) for n >= 0
RECURSIVE StrOfNat(_)
StrOfNat(n) ==
    IF n < 10 THEN << DigitChars[n + 1] >>
    ELSE StrOfNat(n \div 10) \o << DigitChars[(n % 10) + 1] >>

\* a < b for Python strings, given that they agree before position i: by
\* code point at the first difference, a proper prefix first
RECURSIVE LexLessFrom(_, _, _)
LexLessFrom(a, b, i) ==
    IF i > Len(a) THEN i <= Len(b)
    ELSE IF i > Len(b) THEN FALSE
    ELSE IF a[i] = b[i] THEN LexLessFrom(a, b, i + 1)
    ELSE Ord(a[i]) < Ord(b[i])

LexLess(a, b) == LexLessFrom(a, b, 1)

\* list.sort() of a list of distinct strings
RECURSIVE SortNames(_)
SortNames(S) ==
    IF S = {} THEN << >>
    ELSE LET m == CHOOSE x \in S : \A o \in S \ {x} : LexLess(x, o)
         IN  << m >> \o SortNames(S \ {m})

----------------------------------------------------------------------------
(* Process.extract_positions: the recipe parser and coordinate transform.  *)
(*                                                                         *)
(* A recipe is the sequence of its lines.  A line is a record              *)
(*   k : the keyword the stripped line starts with ("SampleSize",          *)
(*       "DiePitch", "DieOrigin", "SampleCenterLocation", "DefectList"),   *)
(*       "row" for a line matching ^\d+\s, "noise" for any other line;     *)
(*   f : the numeric fields the line's regular expression captures (empty  *)
(*       when the keyword line does not match it); for a row, its first    *)
(*       five whitespace-separated tokens as numbers;                      *)
(*   n : the number of whitespace-separated tokens of the line.            *)
(* An optional value is a sequence: << >> is None, << v >> is v.           *)

None == << >>

Some(v) == << v >>

\* the dictionary `data` as extract_positions creates it
EmptyData ==
    [ SampleSize |-> None,
      DiePitch |-> [X |-> None, Y |-> None],
      DieOrigin |-> [X |-> None, Y |-> None],
      SampleCenterLocation |-> [X |-> None, Y |-> None],
      Defects |-> << >> ]

\* a defect row needs this many tokens to be kept
RowTokens == 18

\* one iteration of the loop over the lines; st = [data, dans_defect_list]
ParseLine(st, line) ==
    IF line.k = "SampleSize" THEN
        IF Len(line.f) = 1
        THEN [st EXCEPT !.data.SampleSize = Some(line.f[1])]
        ELSE st
    ELSE IF line.k = "DiePitch" THEN
        IF Len(line.f) = 2
        THEN [st EXCEPT !.data.DiePitch =
                            [X |-> Some(line.f[1]), Y |-> Some(line.f[2])]]
        ELSE st
    ELSE IF line.k = "DieOrigin" THEN
        IF Len(line.f) = 2
        THEN [st EXCEPT !.data.DieOrigin =
                            [X |-> Some(line.f[1]), Y |-> Some(line.f[2])]]
        ELSE st
    ELSE IF line.k = "SampleCenterLocation" THEN
        IF Len(line.f) = 2
        THEN [st EXCEPT !.data.SampleCenterLocation =
                            [X |-> Some(line.f[1]), Y |-> Some(line.f[2])]]
        ELSE st
    ELSE IF line.k = "DefectList" THEN
        [st EXCEPT !.dans_defect_list = TRUE]
    ELSE IF st.dans_defect_list THEN
        IF line.k = "row" /\ line.n >= RowTokens
        THEN [st EXCEPT !.data.Defects =
                 Append(@, [val1 |-> line.f[1], val2 |-> line.f[2],
                            val3 |-> line.f[3], val4 |-> line.f[4],
                            val5 |-> line.f[5]])]
        ELSE st
    ELSE st

\* the loop over the lines of the file
RECURSIVE ParseLines(_, _)
ParseLines(st, lines) ==
    IF lines = << >> THEN st
    ELSE ParseLines(ParseLine(st, Head(lines)), Tail(lines))

\* a variant that takes every row for a full one
ParseRecipeAnyRow(lines) ==
    ParseLines([data |-> EmptyData, dans_defect_list |-> FALSE],
               [i \in 1..Len(lines) |->
                   IF lines[i].k = "row" THEN [lines[i] EXCEPT !.n = RowTokens]
                   ELSE lines[i]]).data

\* `data` after the whole file is read
ParseRecipe(lines) ==
    ParseLines([data |-> EmptyData, dans_defect_list |-> FALSE], lines).data

\* the divisor of the unit conversion
Divisor == 10000

\* Ties of round(a / 10000, 1) that round away from zero.  a = 1000 q + 500
\* is a tie in decimal; the double nearest a / 10000 is the tie itself only
\* for q = 2, 7, 12, 17 (round-half-even applies), otherwise it lies just
\* above or just below it.  Listed for q < 20.
TieRoundsUp == {0, 4, 5, 6, 7, 10, 13, 15, 17, 18}

\* round(n / 10000, 1) for an integer-valued n with |n| < 20000, as a float
\* in sign-magnitude form: mag tenths, neg the sign bit (-0.0 has mag 0).
Round1(n) ==
    LET a == IF n < 0 THEN 0 - n ELSE n
        unit == Divisor \div 10
        q == a \div unit
        r == a % unit
    IN  [neg |-> n < 0,
         mag |-> IF 2 * r < unit THEN q
                 ELSE IF 2 * r > unit THEN q + 1
                 ELSE IF q \in TieRoundsUp THEN q + 1 ELSE q]

\* a variant that scales the die row, not the die column
Val4ScaledFromVal5(d, pitch_x, x_center) == d.val5 * pitch_x - x_center

\* val4_scaled = d["val4"] * pitch_x - x_center
Val4Scaled(d, pitch_x, x_center) == d.val4 * pitch_x - x_center

\* val5_scaled = d["val5"] * pitch_y - y_center
Val5Scaled(d, pitch_y, y_center) == d.val5 * pitch_y - y_center

\* x_corr = round((val2 + val4_scaled) / 10000, 1)
XCorr(d, pitch_x, x_center) == Round1(d.val2 + Val4Scaled(d, pitch_x, x_center))

\* y_corr = round((val3 + val5_scaled) / 10000, 1)
YCorr(d, pitch_y, y_center) == Round1(d.val3 + Val5Scaled(d, pitch_y, y_center))

\* whether the loop over data["Defects"] raises TypeError: its first
\* iteration multiplies by, or subtracts, a None
CorrectionRaises(data) ==
    /\ data.Defects # << >>
    /\ \/ data.DiePitch.X = None
       \/ data.SampleCenterLocation.X = None
       \/ data.DiePitch.Y = None
       \/ data.SampleCenterLocation.Y = None

\* the DataFrame with columns X, Y built from corrected_positions
CorrectedPositions(data) ==
    [i \in 1..Len(data.Defects) |->
        [X |-> XCorr(data.Defects[i], data.DiePitch.X[1],
                     data.SampleCenterLocation.X[1]),
         Y |-> YCorr(data.Defects[i], data.DiePitch.Y[1],
                     data.SampleCenterLocation.Y[1])]]

\* extract_positions(filepath) on a file holding `lines`: the exception it
\* raises ("none" when it returns) and the table it returns
ExtractPositions(lines) ==
    LET data == ParseRecipe(lines)
    IN  IF CorrectionRaises(data)
        THEN [raised |-> "TypeError", table |-> << >>]
        ELSE [raised |-> "none", table |-> CorrectedPositions(data)]

----------------------------------------------------------------------------
(* Files and directories.                                                  *)
(*                                                                         *)
(* The content of a file is a record: pages, the page ids of an image file *)
(* (a stack holds several, a split page or a renamed output one), and      *)
(* lines, the lines of a recipe file.                                      *)

Image(pages) == [pages |-> pages, lines |-> << >>]

Text(lines) == [pages |-> << >>, lines |-> lines]

\* the directory d without the file `name`
Remove(d, name) == [n \in (DOMAIN d) \ {name} |-> d[n]]

\* the directory d with the file `name` created or overwritten
Put(d, name, c) ==
    [n \in (DOMAIN d) \cup {name} |-> IF n = name THEN c ELSE d[n]]

\* "data.tif"
StackName == << "d", "a", "t", "a", ".", "t", "i", "f" >>

\* s.replace(sub, "")
RECURSIVE RemoveAll(_, _)
RemoveAll(s, sub) ==
    IF Len(s) < Len(sub) \/ Len(sub) = 0 THEN s
    ELSE IF SubSeq(s, 1, Len(sub)) = sub
         THEN RemoveAll(SubSeq(s, Len(sub) + 1, Len(s)), sub)
         ELSE << Head(s) >> \o RemoveAll(Tail(s), sub)

\* a variant that numbers the pages from 0
output_file_from_zero(page_index) ==
    RemoveAll(StackName, << ".", "t", "i", "f" >>)
        \o << "_", "p", "a", "g", "e", "_" >> \o StrOfNat(page_index)
        \o << ".", "t", "i", "f", "f" >>

\* output_file = tiff_path.replace(".tif", "") + f"_page_{page_index + 1}.tiff"
output_file(page_index) ==
    RemoveAll(StackName, << ".", "t", "i", "f" >>)
        \o << "_", "p", "a", "g", "e", "_" >> \o StrOfNat(page_index + 1)
        \o << ".", "t", "i", "f", "f" >>

\* f.lower().endswith(('.tiff', '.tif'))
IsTiffName(f) ==
    \/ EndsWith(Lower(f), << ".", "t", "i", "f", "f" >>)
    \/ EndsWith(Lower(f), << ".", "t", "i", "f" >>)

\* glob.glob(os.path.join(output_dir, '*.001')), as a set
matching_files(d) == {f \in DOMAIN d : EndsWith(f, << ".", "0", "0", "1" >>)}

\* os.rename(old, new) in directory d.  Where the destination exists POSIX
\* replaces it and Windows raises FileExistsError.
OsRename(d, old, new, posix) ==
    IF old \notin DOMAIN d THEN [dir |-> d, raised |-> "FileNotFoundError"]
    ELSE IF old = new THEN [dir |-> d, raised |-> "none"]
    ELSE IF new \in DOMAIN d /\ ~posix
         THEN [dir |-> d, raised |-> "FileExistsError"]
    ELSE [dir |-> Put(Remove(d, old), new, d[old]), raised |-> "none"]

----------------------------------------------------------------------------
(* Process.split_tiff                                                      *)

\* the loop over the pages of the opened stack: page_index runs from 0 until
\* img.seek(page_index + 1) raises EOFError
RECURSIVE SplitPages(_, _, _)
SplitPages(d, pages, page_index) ==
    IF page_index >= Len(pages) THEN d
    ELSE SplitPages(Put(d, output_file(page_index),
                        Image(<< pages[page_index + 1] >>)),
                    pages, page_index + 1)

\* split_tiff on the directory d: the directory afterwards, the exception
\* raised and the list returned
SplitTiff(d) ==
    IF StackName \notin DOMAIN d
    THEN [dir |-> d, raised |-> "none", output_files |-> << >>]
    ELSE IF d[StackName].pages = << >>
    THEN [dir |-> d, raised |-> "RuntimeError", output_files |-> << >>]
    ELSE [dir |-> SplitPages(d, d[StackName].pages, 0),
          raised |-> "none",
          output_files |-> [i \in 1..Len(d[StackName].pages) |->
                                output_file(i - 1)]]

----------------------------------------------------------------------------
(* Process.rename                                                          *)

\* the list tiff_files after tiff_files.sort()
tiff_files(d) ==
    SortNames({f \in DOMAIN d :
                  Contains(f, << "p", "a", "g", "e" >>) /\ IsTiffName(f)})

\* a variant that divides the page number itself
csv_row_index_from_one(file_number, n) == file_number \div n

\* csv_row_index = (file_number - 1) // len(self.settings)
csv_row_index(file_number, n) == (file_number - 1) \div n

\* remainder = (file_number - 1) % len(self.settings)
remainder(file_number, n) == (file_number - 1) % n

\* whether coordinates.iloc[i, ...] is in bounds (a negative i counts from
\* the end)
ILocValid(coords, i) == 0 - Len(coords) <= i /\ i < Len(coords)

\* coordinates.iloc[i]
ILoc(coords, i) == coords[(IF i < 0 THEN i + Len(coords) ELSE i) + 1]

\* f"{x}" of a coordinate
FormatFloat(x) ==
    (IF x.neg THEN << "-" >> ELSE << >>)
        \o StrOfNat(x.mag \div 10) \o << "." >> \o StrOfNat(x.mag % 10)

\* a variant that writes Y before X
new_name_y_first(scale, x, y, image_type) ==
    scale \o << "_" >> \o FormatFloat(y) \o << "_" >> \o FormatFloat(x)
        \o << "_" >> \o image_type \o << ".", "t", "i", "f" >>

\* new_name = f"{scale}_{x}_{y}_{image_type}.tif"
new_name(scale, x, y, image_type) ==
    scale \o << "_" >> \o FormatFloat(x) \o << "_" >> \o FormatFloat(y)
        \o << "_" >> \o image_type \o << ".", "t", "i", "f" >>

\* st with the exception exc raised
Raise(st, exc) == [st EXCEPT !.raised = exc]

\* one iteration of `for file in tiff_files`; st = [dir, raised, log], log
\* the renames done so far
RenameOne(st, file, settings, coords, posix) ==
    LET parts == Split(file, "_")
    IN  IF Len(parts) < 3 THEN Raise(st, "IndexError")
        ELSE
        LET token == Split(parts[3], ".")[1]
        IN  IF ~IsIntLiteral(token) THEN Raise(st, "ValueError")
            ELSE IF Len(settings) = 0 THEN Raise(st, "ZeroDivisionError")
            ELSE
            LET file_number == IntOf(token)
                row == csv_row_index(file_number, Len(settings))
                rem == remainder(file_number, Len(settings))
            IN  IF ~ILocValid(coords, row) THEN Raise(st, "IndexError")
                ELSE
                LET new == new_name(settings[rem + 1].Scale,
                                    ILoc(coords, row).X, ILoc(coords, row).Y,
                                    settings[rem + 1].ImageType)
                    mv == OsRename(st.dir, file, new, posix)
                IN  IF mv.raised # "none" THEN Raise(st, mv.raised)
                    ELSE [dir |-> mv.dir,
                          raised |-> "none",
                          log |-> Append(st.log,
                                     [file |-> file, file_number |-> file_number,
                                      csv_row_index |-> row, remainder |-> rem,
                                      new_name |-> new])]

\* the loop `for file in tiff_files`, which the first exception ends
RECURSIVE RenameLoop(_, _, _, _, _)
RenameLoop(st, files, settings, coords, posix) ==
    IF files = << >> \/ st.raised # "none" THEN st
    ELSE RenameLoop(RenameOne(st, Head(files), settings, coords, posix),
                    Tail(files), settings, coords, posix)

\* extract_positions(recipe_path), recipe_path a file of d or None
ExtractFrom(d, recipe_path) ==
    IF recipe_path = None
    THEN [raised |-> "TypeError", table |-> << >>]
    ELSE ExtractPositions(d[recipe_path[1]].lines)

\* rename on the directory d from the line that reads the recipe on, with
\* recipe_path the file glob listed first (None when it listed none) and
\* `files` the files the loop gets to: all of tiff_files, or the first few
\* when the run is cut short.
Rename(d, recipe_path, settings, posix, files) ==
    LET ex == ExtractFrom(d, recipe_path)
    IN  IF ex.raised # "none"
        THEN [dir |-> d, raised |-> ex.raised, log |-> << >>,
              coordinates |-> None]
        ELSE RenameLoop([dir |-> d, raised |-> "none", log |-> << >>],
                        files, settings, ex.table, posix)
                @@ [coordinates |-> Some(ex.table)]

\* the recipe paths rename may take: matching_files[0] in any listing order
RecipePaths(d) ==
    IF matching_files(d) = {} THEN {None}
    ELSE {Some(f) : f \in matching_files(d)}

----------------------------------------------------------------------------
(* Process.clean                                                           *)

\* a variant that keeps the files that do not start with "data"
NonConformingPagesOnly(file_name) ==
    \/ Contains(Lower(file_name), << "p", "a", "g", "e" >>)
    \/ EndsWith(file_name, << "0", "0", "1" >>)

\* a variant that holds of every listed file, the merged stack included
NonConformingEveryImage(file_name) == IsTiffName(file_name)

\* the condition under which clean removes a listed file
NonConforming(file_name) ==
    \/ ~StartsWith(file_name, << "d", "a", "t", "a" >>)
    \/ Contains(Lower(file_name), << "p", "a", "g", "e" >>)
    \/ EndsWith(file_name, << "0", "0", "1" >>)

\* a variant whose loop ends after the first file it removes
CleanOneFile(d) ==
    LET doomed == {f \in DOMAIN d : IsTiffName(f) /\ NonConforming(f)}
    IN  IF doomed = {} THEN d ELSE Remove(d, SortNames(doomed)[1])

\* the directory after clean's loop over its .tif / .tiff files
Clean(d) ==
    [n \in {f \in DOMAIN d : ~(IsTiffName(f) /\ NonConforming(f))} |-> d[n]]

----------------------------------------------------------------------------
(* Batch variants: os.walk over the lot root.                              *)
(*                                                                         *)
(* A directory is named by its path below the lot root self.dirname, the   *)
(* sequence of directory names; << >> is the root itself.                  *)

dirname == << >>

\* os.path.basename(subdir)
Basename(path) == path[Len(path)]

\* the subdirectories of dir in the tree (a set of paths)
Children(tree, dir) ==
    {p \in tree : Len(p) = Len(dir) + 1 /\ SubSeq(p, 1, Len(dir)) = dir}

\* the orders in which a listing may give the members of S
Orders(S) ==
    {o \in [1..Cardinality(S) -> S] :
        \A i, j \in 1..Cardinality(S) : o[i] = o[j] => i = j}

\* The sequences of directories os.walk(dir) may yield: dir first, then the
\* walks of its subdirectories, one after the other in listing order.
RECURSIVE WalkFrom(_, _), WalkEach(_, _)
WalkFrom(tree, dir) ==
    {<< dir >> \o rest :
        rest \in UNION {WalkEach(tree, o) : o \in Orders(Children(tree, dir))}}
WalkEach(tree, dirs) ==
    IF dirs = << >> THEN {<< >>}
    ELSE {a \o b : a \in WalkFrom(tree, Head(dirs)),
                   b \in WalkEach(tree, Tail(dirs))}

\* One iteration of rename_all's loop over os.walk(self.dirname).
\* st = [fs, raised, returned, coordinates, log]; pick[dir] is the recipe
\* glob lists first in dir.
RenameAllOne(st, subdir, pick, settings, posix) ==
    IF subdir = dirname THEN st
    ELSE
    LET output_dir == dirname \o << Basename(subdir) >>
    IN  IF output_dir \notin DOMAIN st.fs \/ matching_files(st.fs[output_dir]) = {}
        THEN [st EXCEPT !.returned = TRUE]
        ELSE
        LET ex == ExtractFrom(st.fs[output_dir], pick[output_dir])
        IN  IF ex.raised # "none" THEN Raise(st, ex.raised)
            ELSE IF ex.table = << >>
            THEN [st EXCEPT !.raised = "ValueError",
                            !.coordinates = Some(ex.table)]
            ELSE
            LET r == RenameLoop([dir |-> st.fs[output_dir], raised |-> "none",
                                 log |-> << >>],
                                tiff_files(st.fs[output_dir]), settings,
                                ex.table, posix)
            IN  [fs |-> [st.fs EXCEPT ![output_dir] = r.dir],
                 raised |-> r.raised,
                 returned |-> FALSE,
                 coordinates |-> Some(ex.table),
                 log |-> st.log \o r.log]

\* rename_all's loop, which a return or the first exception ends
RECURSIVE RenameAllLoop(_, _, _, _, _)
RenameAllLoop(st, walk, pick, settings, posix) ==
    IF walk = << >> \/ st.raised # "none" \/ st.returned THEN st
    ELSE RenameAllLoop(RenameAllOne(st, Head(walk), pick, settings, posix),
                       Tail(walk), pick, settings, posix)

\* the choices of the recipe glob lists first, one per directory
Picks(tree) ==
    {pick \in [DOMAIN tree -> UNION {RecipePaths(tree[p]) : p \in DOMAIN tree}] :
        \A p \in DOMAIN tree : pick[p] \in RecipePaths(tree[p])}

\* one iteration of clean_all's loop over os.walk(self.dirname)
CleanAllOne(tree, subdir) ==
    IF subdir = dirname THEN tree
    ELSE
    LET output_dir == dirname \o << Basename(subdir) >>
    IN  IF output_dir \notin DOMAIN tree THEN tree
        ELSE [tree EXCEPT ![output_dir] = Clean(tree[output_dir])]

RECURSIVE CleanAllLoop(_, _)
CleanAllLoop(tree, walk) ==
    IF walk = << >> THEN tree
    ELSE CleanAllLoop(CleanAllOne(tree, Head(walk)), Tail(walk))

\* One iteration of split_tiff_all's loop over os.walk(self.dirname);
\* st = [fs, raised].
SplitTiffAllOne(st, subdir) ==
    IF subdir = dirname THEN st
    ELSE LET r == SplitTiff(st.fs[subdir])
         IN  [fs |-> [st.fs EXCEPT ![subdir] = r.dir], raised |-> r.raised]

\* split_tiff_all's loop, which the first exception ends
RECURSIVE SplitTiffAllLoop(_, _)
SplitTiffAllLoop(st, walk) ==
    IF walk = << >> \/ st.raised # "none" THEN st
    ELSE SplitTiffAllLoop(SplitTiffAllOne(st, Head(walk)), Tail(walk))

----------------------------------------------------------------------------
(* Process.rename_wo_legend and rename_wo_legend_all                       *)

ClassInternal ==
    << "_", "C", "l", "a", "s", "s", "_", "1", "_",
       "I", "n", "t", "e", "r", "n", "a", "l" >>

ClassTopography ==
    << "_", "C", "l", "a", "s", "s", "_", "1", "_",
       "T", "o", "p", "o", "g", "r", "a", "p", "h", "y" >>

\* topo_number = file.split("_Class_1_Topography")[1][0]
topo_number(file) ==
    LET at == CHOOSE i \in 0..(Len(file) - Len(ClassTopography)) :
                 /\ SubSeq(file, i + 1, i + Len(ClassTopography)) = ClassTopography
                 /\ \A j \in 0..(i - 1) :
                       SubSeq(file, j + 1, j + Len(ClassTopography))
                           # ClassTopography
    IN  file[at + Len(ClassTopography) + 1]

\* the suffix added to f"{x}_{y}", None for a file of neither type; the
\* batch variant ends the name of an Internal image in ".tif"
LegendSuffix(file, batch) ==
    IF Contains(file, ClassInternal)
    THEN Some(<< "_", "B", "S", "E" >>
              \o (IF batch THEN << ".", "t", "i", "f" >>
                  ELSE << ".", "t", "i", "f", "f" >>))
    ELSE IF Contains(file, ClassTopography)
    THEN Some(<< "_", "S", "E", topo_number(file) >>
              \o << ".", "t", "i", "f", "f" >>)
    ELSE None

\* the negation of `if defect_part >= len(self.coordinates): continue`
DefectPartAccepted(defect_part, coords) == defect_part < Len(coords)

\* One iteration of `for file in files` for a file ending in ".tiff" of the
\* directory subdir, walked from folder.  st = [fs, raised, returned,
\* coordinates, log]; recipe_path is what glob lists first in folder.
\* rename_wo_legend reads the defect number before it looks for the
\* recipe, rename_wo_legend_all (batch) after.
RenameWoLegendOne(st, folder, subdir, file, recipe_path, batch, posix) ==
    LET parts == Split(file, "_")
        malformed == Len(parts) < 2 \/ ~IsIntLiteral(parts[2])
        ex == ExtractFrom(st.fs[folder], recipe_path)
    IN  IF ~batch /\ malformed THEN st
        ELSE IF recipe_path = None THEN [st EXCEPT !.returned = TRUE]
        ELSE IF ex.raised # "none" THEN Raise(st, ex.raised)
        ELSE
        LET read == [st EXCEPT !.coordinates = Some(ex.table)]
        IN  IF malformed THEN read
            ELSE
            LET defect_part == IntOf(parts[2]) - 1
                suffix == LegendSuffix(file, batch)
            IN  IF ~DefectPartAccepted(defect_part, ex.table) THEN read
                ELSE IF ~ILocValid(ex.table, defect_part)
                THEN Raise(read, "IndexError")
                ELSE IF suffix = None THEN read
                ELSE
                LET x == ILoc(ex.table, defect_part).X
                    y == ILoc(ex.table, defect_part).Y
                    new_filename == FormatFloat(x) \o << "_" >>
                                        \o FormatFloat(y) \o suffix[1]
                    r == OsRename(read.fs[subdir], file, new_filename, posix)
                IN  [read EXCEPT
                        !.fs = [@ EXCEPT ![subdir] = r.dir],
                        !.raised = r.raised,
                        !.log = Append(@, [file |-> file,
                                           csv_row_index |-> defect_part,
                                           rows |-> Len(ex.table),
                                           new_name |-> new_filename])]

\* the loop over the files os.walk listed in subdir, which a return or the
\* first exception ends
RECURSIVE RenameWoLegendFiles(_, _, _, _, _, _, _)
RenameWoLegendFiles(st, folder, subdir, files, recipe_path, batch, posix) ==
    IF files = << >> \/ st.raised # "none" \/ st.returned THEN st
    ELSE RenameWoLegendFiles(
             IF EndsWith(Head(files), << ".", "t", "i", "f", "f" >>)
             THEN RenameWoLegendOne(st, folder, subdir, Head(files),
                                    recipe_path, batch, posix)
             ELSE st,
             folder, subdir, Tail(files), recipe_path, batch, posix)

\* the loop over os.walk(folder); listing[p] is the order in which the
\* files of directory p are listed
RECURSIVE RenameWoLegendWalk(_, _, _, _, _, _, _)
RenameWoLegendWalk(st, folder, walk, listing, recipe_path, batch, posix) ==
    IF walk = << >> \/ st.raised # "none" \/ st.returned THEN st
    ELSE RenameWoLegendWalk(
             RenameWoLegendFiles(st, folder, Head(walk), listing[Head(walk)],
                                 recipe_path, batch, posix),
             folder, Tail(walk), listing, recipe_path, batch, posix)

\* the orders in which os.walk may list the ".tiff" files of each directory
\* (the loops pass over every other file)
Listings(tree) ==
    LET tiffs(p) == {f \in DOMAIN tree[p] :
                        EndsWith(f, << ".", "t", "i", "f", "f" >>)}
    IN  {l \in [DOMAIN tree -> UNION {Orders(tiffs(p)) : p \in DOMAIN tree}] :
            \A p \in DOMAIN tree : l[p] \in Orders(tiffs(p))}

\* rename_wo_legend_all's loop over folder_names, the directories of the
\* walk of the root that hold a ".001" file.  (A directory holding several
\* is listed once for each; after its first pass no file of it is left
\* that a later pass would rename.)
RECURSIVE RenameWoLegendAllLoop(_, _, _, _, _, _)
RenameWoLegendAllLoop(st, folder_names, walks, listing, pick, posix) ==
    IF folder_names = << >> \/ st.raised # "none" \/ st.returned THEN st
    ELSE RenameWoLegendAllLoop(
             RenameWoLegendWalk(st, Head(folder_names),
                                walks[Head(folder_names)], listing,
                                pick[Head(folder_names)], TRUE, posix),
             Tail(folder_names), walks, listing, pick, posix)

----------------------------------------------------------------------------
(* Process.clean_folders_and_files                                         *)

\* re.fullmatch(r"w0*(\d+)", subfolder) matches
FolderMatch(subfolder) ==
    /\ Len(subfolder) >= 2
    /\ subfolder[1] = "w"
    /\ \A i \in 2..Len(subfolder) : IsDigit(subfolder[i])

\* match.group(1): 0* takes the leading zeros but for the last digit
FolderNewName(subfolder) ==
    LET digits == Tail(subfolder)
        zeros == Cardinality({i \in 1..(Len(digits) - 1) :
                                 \A j \in 1..i : digits[j] = "0"})
    IN  SubSeq(digits, zeros + 1, Len(digits))

\* os.path.exists(os.path.join(folder, name)): a directory or a file
PathExists(tree, folder, name) ==
    folder \o << name >> \in DOMAIN tree \/ name \in DOMAIN tree[folder]

\* os.rename(old_path, new_path) of a directory: it and all below it move
RenameFolder(tree, old_path, new_path) ==
    LET under(p) == Len(p) >= Len(old_path)
                        /\ SubSeq(p, 1, Len(old_path)) = old_path
        moved(p) == new_path \o SubSeq(p, Len(old_path) + 1, Len(p))
        back(q) == old_path \o SubSeq(q, Len(new_path) + 1, Len(q))
    IN  [q \in {p \in DOMAIN tree : ~under(p)}
                \cup {moved(p) : p \in {p \in DOMAIN tree : under(p)}} |->
            IF q \in DOMAIN tree /\ ~under(q) THEN tree[q] ELSE tree[back(q)]]

\* the loop `for subfolder in subfolders` of the first walk, in folder
RECURSIVE RenameSubfolders(_, _, _)
RenameSubfolders(tree, folder, subfolders) ==
    IF subfolders = << >> THEN tree
    ELSE
    LET subfolder == Head(subfolders)
        target == FolderNewName(subfolder)
    IN  RenameSubfolders(
            IF FolderMatch(subfolder) /\ ~PathExists(tree, folder, target)
            THEN RenameFolder(tree, folder \o << subfolder >>,
                              folder \o << target >>)
            ELSE tree,
            folder, Tail(subfolders))

\* The trees the first os.walk may leave, from folder on: the subfolders
\* are listed in some order and renamed, and then the walk goes down into
\* each name of that list; a name that was renamed is no directory any
\* more and is passed over.
RECURSIVE CleanFoldersFrom(_, _), CleanFoldersEach(_, _, _)
CleanFoldersFrom(tree, folder) ==
    UNION {CleanFoldersEach(
               RenameSubfolders(tree, folder,
                                [i \in 1..Len(o) |-> Basename(o[i])]),
               folder, [i \in 1..Len(o) |-> Basename(o[i])]) :
              o \in Orders(Children(DOMAIN tree, folder))}
CleanFoldersEach(tree, folder, subfolders) ==
    IF subfolders = << >> THEN {tree}
    ELSE UNION {CleanFoldersEach(t, folder, Tail(subfolders)) :
                   t \in IF folder \o << Head(subfolders) >> \in DOMAIN tree
                         THEN CleanFoldersFrom(tree,
                                               folder \o << Head(subfolders) >>)
                         ELSE {tree}}

\* the second walk: every ".tiff" file with "Raw" in its name is removed
RemoveRaw(tree) ==
    [p \in DOMAIN tree |->
        [n \in {f \in DOMAIN tree[p] :
                   ~(EndsWith(f, << ".", "t", "i", "f", "f" >>)
                     /\ Contains(f, << "R", "a", "w" >>))} |-> tree[p][n]]]

----------------------------------------------------------------------------
(* Process.organize_and_rename_files                                       *)

\* s.rsplit(sep, 1), sep one character
RSplit1(s, sep) ==
    IF \A i \in 1..Len(s) : s[i] # sep
    THEN << s >>
    ELSE LET i == CHOOSE k \in 1..Len(s) :
                      s[k] = sep /\ \A j \in (k + 1)..Len(s) : s[j] # sep
         IN  << SubSeq(s, 1, i - 1), SubSeq(s, i + 1, Len(s)) >>

\* an empty directory
EmptyDir == << >>

\* os.path.join(self.dirname, subfolder_name)
subfolder_path(subfolder_name) ==
    IF subfolder_name = << >> THEN dirname ELSE dirname \o << subfolder_name >>

\* os.makedirs(subfolder_path, exist_ok=True) followed by
\* shutil.move(source_path, destination_path): the file file_name of the
\* root goes to the name `destination` of the subfolder, replacing the file
\* that has this name there.  tree = [fs, raised].
MoveToSubfolder(st, file_name, subfolder_name, destination) ==
    LET root == st.fs[dirname]
        path == subfolder_path(subfolder_name)
    IN  IF subfolder_name \in DOMAIN root THEN Raise(st, "FileExistsError")
        ELSE IF file_name \notin DOMAIN root THEN Raise(st, "FileNotFoundError")
        ELSE
        LET made == [p \in (DOMAIN st.fs) \cup {path} |->
                        IF p \in DOMAIN st.fs THEN st.fs[p] ELSE EmptyDir]
            taken == [made EXCEPT ![dirname] = Remove(root, file_name)]
        IN  [st EXCEPT !.fs = [taken EXCEPT ![path] =
                                   Put(taken[path], destination, root[file_name])]]

\* one iteration of the loop over os.listdir(self.dirname)
OrganizeOne(st, file_name) ==
    LET parts == RSplit1(file_name, "_")
    IN  IF EndsWith(Lower(file_name), << ".", "t", "i", "f" >>)
        THEN IF Len(parts) < 2 THEN st
             ELSE MoveToSubfolder(st, file_name, Split(parts[2], ".")[1],
                                  StackName)
        ELSE IF EndsWith(Lower(file_name), << ".", "0", "0", "1" >>)
        THEN IF Len(parts) < 2 THEN st
             ELSE MoveToSubfolder(st, file_name, Split(parts[2], ".")[1],
                                  file_name)
        ELSE st

\* the loop, which the first exception ends
RECURSIVE OrganizeLoop(_, _)
OrganizeLoop(st, listing) ==
    IF listing = << >> \/ st.raised # "none" THEN st
    ELSE OrganizeLoop(OrganizeOne(st, Head(listing)), Tail(listing))

\* organize_and_rename_files on the lot `tree`, os.listdir giving `listing`
Organize(tree, listing) ==
    OrganizeLoop([fs |-> tree, raised |-> "none"], listing)

----------------------------------------------------------------------------
(* ButtonFrame.run_data_processing: the methods the "Run function" button  *)
(* runs, one after the other, for the function selected.  The methods of   *)
(* the two "Rename (w/o tag)" functions (clean_folders_and_files,          *)
(* rename_wo_legend, rename_wo_legend_all) are modelled as calls of their  *)
(* own, not as runs of the button.                                         *)

Modes == {"split_rename", "split_rename_all", "clean", "clean_all",
          "create_folder"}

\* a variant that cleans once splitting and renaming are done
PipelineCleanLast(mode) ==
    CASE mode = "split_rename" ->
             << "organize_and_rename_files", "split_tiff", "rename", "clean" >>
      [] mode = "split_rename_all" ->
             << "organize_and_rename_files", "split_tiff_all", "rename_all",
                "clean_all" >>
      [] mode = "clean" -> << "clean" >>
      [] mode = "clean_all" -> << "clean_all" >>
      [] mode = "create_folder" -> << "organize_and_rename_files" >>

\* the methods execute_with_timer is called with, in order
Pipeline(mode) ==
    CASE mode = "split_rename" ->
             << "clean", "organize_and_rename_files", "split_tiff", "rename" >>
      [] mode = "split_rename_all" ->
             << "clean_all", "organize_and_rename_files", "split_tiff_all",
                "rename_all" >>
      [] mode = "clean" -> << "clean" >>
      [] mode = "clean_all" -> << "clean_all" >>
      [] mode = "create_folder" -> << "organize_and_rename_files" >>

\* The outcomes of one method on the run st = [fs, raised, coordinates,
\* log, calls], for the wafer selected: one outcome per order in which the
\* directories and files may be listed.  A single-wafer method whose wafer
\* directory does not exist prints a message and returns.
RunStep(st, step, wafer, table, replaces) ==
    LET output_dir == dirname \o << wafer >>
        here == output_dir \in DOMAIN st.fs
        ran == [st EXCEPT !.calls = Append(st.calls, step)]
    IN  CASE step = "clean" ->
                 {IF here
                  THEN [ran EXCEPT !.fs[output_dir] = Clean(st.fs[output_dir])]
                  ELSE ran}
          [] step = "clean_all" ->
                 {[ran EXCEPT !.fs = CleanAllLoop(st.fs, walk)] :
                     walk \in WalkFrom(DOMAIN st.fs, dirname)}
          [] step = "organize_and_rename_files" ->
                 {LET r == Organize(st.fs, listing)
                  IN  [ran EXCEPT !.fs = r.fs, !.raised = r.raised] :
                     listing \in Orders(DOMAIN st.fs[dirname])}
          [] step = "split_tiff" ->
                 {IF here
                  THEN LET r == SplitTiff(st.fs[output_dir])
                       IN  [ran EXCEPT !.fs[output_dir] = r.dir,
                                       !.raised = r.raised]
                  ELSE ran}
          [] step = "split_tiff_all" ->
                 {LET r == SplitTiffAllLoop([fs |-> st.fs, raised |-> "none"],
                                            walk)
                  IN  [ran EXCEPT !.fs = r.fs, !.raised = r.raised] :
                     walk \in WalkFrom(DOMAIN st.fs, dirname)}
          [] step = "rename" ->
                 IF here
                 THEN {LET d == st.fs[output_dir]
                           r == Rename(d, recipe_path, table, replaces,
                                       tiff_files(d))
                       IN  [ran EXCEPT !.fs[output_dir] = r.dir,
                                       !.raised = r.raised,
                                       !.log = r.log,
                                       !.coordinates =
                                           IF r.coordinates = None THEN @
                                           ELSE r.coordinates] :
                          recipe_path \in RecipePaths(st.fs[output_dir])}
                 ELSE {ran}
          [] step = "rename_all" ->
                 {LET r == RenameAllLoop([fs |-> st.fs, raised |-> "none",
                                          returned |-> FALSE,
                                          coordinates |-> st.coordinates,
                                          log |-> << >>],
                                         walk, pick, table, replaces)
                  IN  [ran EXCEPT !.fs = r.fs, !.raised = r.raised,
                                  !.log = r.log,
                                  !.coordinates = r.coordinates] :
                     walk \in WalkFrom(DOMAIN st.fs, dirname),
                     pick \in Picks(st.fs)}

\* the methods of `steps` one after the other; an exception ends the run
RECURSIVE RunSteps(_, _, _, _, _)
RunSteps(runs, steps, wafer, table, replaces) ==
    IF steps = << >> THEN runs
    ELSE RunSteps(UNION {IF st.raised # "none" THEN {st}
                         ELSE RunStep(st, Head(steps), wafer, table, replaces) :
                            st \in runs},
                  Tail(steps), wafer, table, replaces)

----------------------------------------------------------------------------
(* PlotFrame (the viewer): its own extract_positions, and the image index  *)
(* on_click computes.                                                      *)

\* the dictionary `data` as PlotFrame.extract_positions creates it
PlotEmptyData ==
    [ SampleSize |-> None,
      DiePitch |-> [X |-> None, Y |-> None],
      DieOrigin |-> [X |-> None, Y |-> None],
      SampleCenterLocation |-> [X |-> None, Y |-> None],
      Defects |-> << >> ]

\* one iteration of the loop over the lines; st = [data, dans_defect_list]
PlotParseLine(st, ligne) ==
    IF ligne.k = "SampleSize" THEN
        IF Len(ligne.f) = 1
        THEN [st EXCEPT !.data.SampleSize = Some(ligne.f[1])]
        ELSE st
    ELSE IF ligne.k = "DiePitch" THEN
        IF Len(ligne.f) = 2
        THEN [st EXCEPT !.data.DiePitch =
                            [X |-> Some(ligne.f[1]), Y |-> Some(ligne.f[2])]]
        ELSE st
    ELSE IF ligne.k = "DieOrigin" THEN
        IF Len(ligne.f) = 2
        THEN [st EXCEPT !.data.DieOrigin =
                            [X |-> Some(ligne.f[1]), Y |-> Some(ligne.f[2])]]
        ELSE st
    ELSE IF ligne.k = "SampleCenterLocation" THEN
        IF Len(ligne.f) = 2
        THEN [st EXCEPT !.data.SampleCenterLocation =
                            [X |-> Some(ligne.f[1]), Y |-> Some(ligne.f[2])]]
        ELSE st
    ELSE IF ligne.k = "DefectList" THEN
        [st EXCEPT !.dans_defect_list = TRUE]
    ELSE IF st.dans_defect_list THEN
        IF ligne.k = "row" /\ ligne.n >= 18
        THEN [st EXCEPT !.data.Defects =
                 Append(@, [val1 |-> ligne.f[1], val2 |-> ligne.f[2],
                            val3 |-> ligne.f[3], val4 |-> ligne.f[4],
                            val5 |-> ligne.f[5]])]
        ELSE st
    ELSE st

\* the loop over the lines of the file
RECURSIVE PlotParseLines(_, _)
PlotParseLines(st, lignes) ==
    IF lignes = << >> THEN st
    ELSE PlotParseLines(PlotParseLine(st, Head(lignes)), Tail(lignes))

\* a variant that does not subtract the wafer centre
PlotXCorrUncentred(d, pitch_x, Xcenter) ==
    Round1(d.val2 + (d.val4 * pitch_x))

\* x_corr = round((val2 + val4_scaled) / 10000, 1), with
\* val4_scaled = d["val4"] * pitch_x - Xcenter
PlotXCorr(d, pitch_x, Xcenter) ==
    Round1(d.val2 + (d.val4 * pitch_x - Xcenter))

\* y_corr = round((val3 + val5_scaled) / 10000, 1), with
\* val5_scaled = d["val5"] * pitch_y - Ycenter
PlotYCorr(d, pitch_y, Ycenter) ==
    Round1(d.val3 + (d.val5 * pitch_y - Ycenter))

\* PlotFrame.extract_positions(filepath) on a file holding `lignes`: the
\* exception it raises ("none" when it returns) and the table it returns
PlotExtractPositions(lignes) ==
    LET data == PlotParseLines([data |-> PlotEmptyData,
                                dans_defect_list |-> FALSE], lignes).data
        pitch_x == data.DiePitch.X
        pitch_y == data.DiePitch.Y
        Xcenter == data.SampleCenterLocation.X
        Ycenter == data.SampleCenterLocation.Y
    IN  IF /\ data.Defects # << >>
           /\ None \in {pitch_x, pitch_y, Xcenter, Ycenter}
        THEN [raised |-> "TypeError", table |-> << >>]
        ELSE [raised |-> "none",
              table |-> [i \in 1..Len(data.Defects) |->
                            [X |-> PlotXCorr(data.Defects[i], pitch_x[1],
                                             Xcenter[1]),
                             Y |-> PlotYCorr(data.Defects[i], pitch_y[1],
                                             Ycenter[1])]]]

\* PlotFrame.extract_positions on the file the glob of open_tiff chose in
\* the directory d; open(None) raises TypeError
PlotExtractFrom(d, recipe_path) ==
    IF recipe_path = None
    THEN [raised |-> "TypeError", table |-> << >>]
    ELSE PlotExtractPositions(d[recipe_path[1]].lines)

\* _load_tiff: the pages of the stack become image_list and the first is
\* shown; an unreadable stack is reported and leaves the frame as it was
LoadTiff(frame, stack) ==
    IF stack.pages = << >> THEN frame
    ELSE [frame EXCEPT !.image_list = stack.pages, !.current_index = 0]

\* a variant that takes the image type as the stride
OnClickIndexByType(image_type, closest_idx, number_type) ==
    closest_idx + (image_type * number_type)

\* result = self.image_type + (closest_idx * self_number_type)
OnClickIndex(image_type, closest_idx, number_type) ==
    image_type + (closest_idx * number_type)

\* distances.idxmin() for a click at the plotted position of row `point`:
\* the first row of the table at distance zero
ClosestIdx(table, point) ==
    (CHOOSE i \in 1..Len(table) :
        /\ table[i] = table[point + 1]
        /\ \A j \in 1..(i - 1) : table[j] # table[point + 1]) - 1

\* show_image: self.image_list[self.current_index] raises IndexError when
\* the list is not empty and the index is beyond it
ShowImageRaises(frame) ==
    /\ frame.image_list # << >>
    /\ frame.current_index >= Len(frame.image_list)

----------------------------------------------------------------------------
(* The state: one Process object, one PlotFrame object and the lot         *)
(* directory they work on.                                                 *)

VARIABLES
    fs,            \* the lot: path of a directory |-> the files it holds
    settings,      \* self.settings, the capture settings table
    wafer_number,  \* self.wafer_number
    coordinates,   \* self.coordinates: None or the last table extracted
    posix,         \* whether os.rename replaces an existing destination
    plot,          \* the PlotFrame: coordinates, image_list, current_index
    last,          \* history: the last call, the lot before it, its outcome
    resume         \* history: a rename was cut short; what it was to produce

vars == << fs, settings, wafer_number, coordinates, posix, plot, last, resume >>

----------------------------------------------------------------------------
(* Inputs.                                                                 *)

\* recipe lines
LineSampleSize == [k |-> "SampleSize", f |-> << 200 >>, n |-> 3]

LineDiePitch(x, y) == [k |-> "DiePitch", f |-> << x, y >>, n |-> 3]

LineDieOrigin == [k |-> "DieOrigin", f |-> << 0, 0 >>, n |-> 3]

LineCenter(x, y) == [k |-> "SampleCenterLocation", f |-> << x, y >>, n |-> 3]

LineDefectList == [k |-> "DefectList", f |-> << >>, n |-> 1]

LineRow(f) == [k |-> "row", f |-> f, n |-> 18]

\* defect rows: defect id, row_offset, col_offset, die_col, die_row
RowA == << 1, 2000, 3000, 1, 2 >>

RowB == << 2, 2040, 3010, 1, 2 >>

RowC == << 3, 600, 3500, 0, 0 >>

\* the sequences over S of length at most n
SeqsUpTo(S, n) == UNION {[1..k -> S] : k \in 0..n}

\* a recipe with the geometry of the coordinate scenario and the given rows
RecipeOf(rows) ==
    << LineSampleSize, LineDiePitch(5000, 5000), LineDieOrigin,
       LineCenter(1000, 1000), LineDefectList >>
        \o [i \in 1..Len(rows) |-> LineRow(rows[i])]

\* capture settings
SettingSE == [Scale |-> << "5" >>, ImageType |-> << "S", "E" >>]

SettingBSE == [Scale |-> << "1", "0" >>, ImageType |-> << "B", "S", "E" >>]

SettingPage == [Scale |-> << "5" >>, ImageType |-> << "p", "a", "g", "e" >>]

\* names of files a wafer directory may hold besides the stack
RecipeName == << "r", ".", "0", "0", "1" >>

\* "data_page_.tiff": no page number; sorts before every data_page_<n>.tiff
BadFirst ==
    << "d", "a", "t", "a", "_", "p", "a", "g", "e", "_", ".", "t", "i", "f", "f" >>

\* "data_page_x.tiff": no page number; sorts after every data_page_<n>.tiff
BadLast ==
    << "d", "a", "t", "a", "_", "p", "a", "g", "e", "_", "x",
       ".", "t", "i", "f", "f" >>

\* "n.txt"
NotesName == << "n", ".", "t", "x", "t" >>

ExtraFiles == {BadFirst, BadLast, NotesName}

\* a wafer directory as the instrument leaves it: the merged stack of P
\* pages, the recipe, and the stray files `extras`
WaferDir(P, recipe, extras) ==
    [n \in {StackName, RecipeName} \cup extras |->
        IF n = StackName THEN Image([i \in 1..P |-> i])
        ELSE IF n = RecipeName THEN Text(recipe)
        ELSE IF n = NotesName THEN Text(<< >>)
        ELSE Image(<< 0 >>)]

Wafer1 == << "1" >>

\* a lot holding one wafer directory
OneWaferLot(d) ==
    [p \in {dirname, << Wafer1 >>} |-> IF p = dirname THEN << >> ELSE d]

NoResume == [active |-> FALSE, want |-> None]

\* the PlotFrame as its constructor leaves it
NoPlot == [coordinates |-> None, image_list |-> << >>, current_index |-> 0]

\* the state after Process(dirname, wafer, scale) on the lot `lot`
Constructed(lot, table, replaces) ==
    /\ fs = lot
    /\ settings = table
    /\ wafer_number = Wafer1
    /\ coordinates = None
    /\ posix = replaces
    /\ plot = NoPlot
    /\ last = [op |-> "init", raised |-> "none", pre |-> lot, log |-> << >>,
               calls |-> << >>, again |-> FALSE,
               resumed |-> FALSE, want |-> None]
    /\ resume = NoResume

\* the capture cycle of n settings
SettingTopo == [Scale |-> << "5" >>, ImageType |-> << "t", "o", "p", "o" >>]

CaptureCycle(n) == SubSeq(<< SettingSE, SettingBSE, SettingTopo, SettingSE >>, 1, n)

\* Stacks, recipes and capture cycles of every size within the bounds; or
\* one stray file beside a stack and a recipe of two defects; or a cycle
\* that repeats a setting; or a file system on which os.rename does not
\* replace.
Init ==
    \/ \E P \in 1..MaxPages,
          rows \in SeqsUpTo({RowA, RowB, RowC}, MaxDefects),
          n \in 0..MaxSettings :
          Constructed(OneWaferLot(WaferDir(P, RecipeOf(rows), {})),
                      CaptureCycle(n), TRUE)
    \/ \E P \in 1..MaxPages, e \in ExtraFiles :
          Constructed(OneWaferLot(WaferDir(P, RecipeOf(<< RowA, RowC >>), {e})),
                      CaptureCycle(1), TRUE)
    \/ \E P \in 1..MaxPages :
          Constructed(OneWaferLot(WaferDir(P, RecipeOf(<< RowA, RowC >>), {})),
                      << SettingSE, SettingSE >>, TRUE)
    \/ \E P \in 1..MaxPages, rows \in {<< RowA, RowB >>, << RowA, RowC >>},
          n \in 1..MaxSettings :
          Constructed(OneWaferLot(WaferDir(P, RecipeOf(rows), {})),
                      CaptureCycle(n), FALSE)

\* Recipes with and without their geometry lines, for extract_positions.
GeometryLines ==
    {<< LineDiePitch(px, py), LineCenter(cx, cy) >> :
        px \in {5000}, py \in {5000, 4000}, cx \in {1000}, cy \in {1000, 2000}}
    \cup {<< LineCenter(1000, 1000) >>,
          << LineDiePitch(5000, 5000) >>,
          << [k |-> "DiePitch", f |-> << >>, n |-> 3], LineCenter(1000, 1000) >>,
          << LineDiePitch(5000, 5000),
             [k |-> "SampleCenterLocation", f |-> << >>, n |-> 3] >>}

InitPositions ==
    \E geometry \in GeometryLines,
       rows \in SeqsUpTo({RowA, RowB, RowC}, MaxDefects) :
       Constructed(
           OneWaferLot(WaferDir(1,
               << LineSampleSize >> \o geometry \o << LineDieOrigin, LineDefectList >>
                   \o [i \in 1..Len(rows) |-> LineRow(rows[i])],
               {})),
           << SettingSE >>, TRUE)

\* Capture cycles with and without an image type that contains "page".
PageCycle(n) == SubSeq(<< SettingPage, SettingSE, SettingBSE, SettingPage >>, 1, n)

InitRerun ==
    \E P \in 1..MaxPages,
       rows \in {<< RowA >>, << RowA, RowC >>, << RowC, RowA >>},
       table \in {CaptureCycle(n) : n \in 1..MaxSettings}
                    \cup {PageCycle(n) : n \in 1..MaxSettings} :
       Constructed(OneWaferLot(WaferDir(P, RecipeOf(rows), {})), table, TRUE)

\* Lots of several wafer directories.  A wafer directory is of one of these
\* kinds: complete; without its recipe; with a recipe that has no DiePitch
\* line; with a recipe that lists no defect; without its stack; with a
\* stack that cannot be read.
WaferKinds ==
    {"good", "no_recipe", "no_geometry", "empty_table", "no_stack", "bad_stack"}

TwoDefects == << RowA, RowC >>

RecipeNoPitch ==
    << LineSampleSize, LineDieOrigin, LineCenter(1000, 1000), LineDefectList >>
        \o [i \in 1..Len(TwoDefects) |-> LineRow(TwoDefects[i])]

LotWafer(kind, P) ==
    LET good == WaferDir(P, RecipeOf(TwoDefects), {})
    IN  CASE kind = "good" -> good
          [] kind = "no_recipe" -> Remove(good, RecipeName)
          [] kind = "no_geometry" -> WaferDir(P, RecipeNoPitch, {})
          [] kind = "empty_table" -> WaferDir(P, RecipeOf(<< >>), {})
          [] kind = "no_stack" -> Remove(good, StackName)
          [] kind = "bad_stack" -> Put(good, StackName, Image(<< >>))

Wafer2 == << "2" >>

Wafer3 == << "3" >>

\* the lot whose directories are the paths of `dirs`, a function from paths
\* to directories; the root holds no file
LotOf(dirs) ==
    [p \in {dirname} \cup DOMAIN dirs |-> IF p = dirname THEN << >> ELSE dirs[p]]

\* three wafer directories under the root
ThreeWaferLot(d1, d2, d3) ==
    LotOf([p \in {<< Wafer1 >>, << Wafer2 >>, << Wafer3 >>} |->
              IF p = << Wafer1 >> THEN d1
              ELSE IF p = << Wafer2 >> THEN d2 ELSE d3])

\* a wafer directory nested in another one, with or without a directory of
\* the same name under the root
NestedLot(d1, d12, others) ==
    LotOf([p \in {<< Wafer1 >>, << Wafer1, Wafer2 >>} \cup DOMAIN others |->
              IF p = << Wafer1 >> THEN d1
              ELSE IF p = << Wafer1, Wafer2 >> THEN d12 ELSE others[p]])

NoOthers == [p \in {} |-> << >>]

\* Three wafers with two pages each and one capture setting, one of them of
\* any kind and the others complete; or three complete wafers, one with a
\* stack of any size; or a nested wafer directory.
InitLot ==
    \/ \E k \in WaferKinds, odd \in {Wafer1, Wafer2, Wafer3} :
          Constructed(ThreeWaferLot(
                          LotWafer(IF odd = Wafer1 THEN k ELSE "good", 2),
                          LotWafer(IF odd = Wafer2 THEN k ELSE "good", 2),
                          LotWafer(IF odd = Wafer3 THEN k ELSE "good", 2)),
                      << SettingSE >>, TRUE)
    \/ \E P \in 1..MaxPages, n \in 1..MaxSettings :
          Constructed(ThreeWaferLot(LotWafer("good", P), LotWafer("good", 2),
                                    LotWafer("good", 2)),
                      CaptureCycle(n), TRUE)
    \/ \E P \in 1..MaxPages :
          \/ Constructed(NestedLot(LotWafer("good", 2), LotWafer("good", P),
                                   NoOthers),
                         << SettingSE >>, TRUE)
          \/ Constructed(NestedLot(LotWafer("good", 2), LotWafer("good", P),
                                   [p \in {<< Wafer2 >>} |-> LotWafer("good", 1)]),
                         << SettingSE >>, TRUE)

\* Two wafer directories, the first of any kind and with any number of
\* pages, under either os.rename.
InitKeep ==
    \E kind \in WaferKinds, P \in 1..MaxPages, n \in 1..MaxSettings,
       replaces \in BOOLEAN :
       Constructed(LotOf([p \in {<< Wafer1 >>, << Wafer2 >>} |->
                             IF p = << Wafer1 >> THEN LotWafer(kind, P)
                             ELSE LotWafer("good", 1)]),
                   CaptureCycle(n), replaces)

\* Loose files under the lot root, as the instrument exports them: stacks
\* and recipes named <label>_<wafer>.<ext>, two of them for the same wafer,
\* one with an empty wafer token, and a stack without any token.
NameA1 == << "a", "_", "1", ".", "t", "i", "f" >>

NameX1 == << "x", "_", "1", ".", "t", "i", "f" >>

NameA2 == << "a", "_", "2", ".", "t", "i", "f" >>

NameR1 == << "r", "_", "1", ".", "0", "0", "1" >>

NameR2 == << "r", "_", "2", ".", "0", "0", "1" >>

NameX == << "x", "_", ".", "t", "i", "f" >>

LooseNames == << NameA1, NameX1, NameA2, NameR1, NameR2, NameX, StackName >>

\* the i-th loose file: a stack of i pages, or a recipe of one defect
LooseFile(i) ==
    IF EndsWith(LooseNames[i], << ".", "0", "0", "1" >>)
    THEN Text(RecipeOf(<< << i, 2000, 3000, 1, 2 >> >>))
    ELSE Image([k \in 1..i |-> 10 * i + k])

\* the lot root holding the loose files of the indices in I, beside the
\* wafer directories `dirs`
LooseLot(I, dirs) ==
    [p \in {dirname} \cup DOMAIN dirs |->
        IF p = dirname
        THEN [n \in {LooseNames[i] : i \in I} |->
                 LooseFile(CHOOSE i \in I : LooseNames[i] = n)]
        ELSE dirs[p]]

MaxLoose == 3

InitApp ==
    \E I \in SUBSET (1..Len(LooseNames)) :
        /\ Cardinality(I) <= MaxLoose
        /\ \/ Constructed(LooseLot(I, NoOthers), << SettingSE >>, TRUE)
           \/ \E replaces \in BOOLEAN :
                 Constructed(LooseLot(I, [p \in {<< Wafer1 >>} |->
                                             LotWafer("good", 2)]),
                             << SettingSE >>, replaces)

\* Recipes whose defect list holds, beside full rows, rows of fewer than 18
\* tokens, lines that are no rows, and geometry lines; a line that looks
\* like a row may precede the DefectList line.
MaxLines == 3

LineShortRow(f) == [k |-> "row", f |-> f, n |-> 17]

LineNoise == [k |-> "noise", f |-> << >>, n |-> 2]

ListLines ==
    {LineRow(RowA), LineRow(RowC), LineShortRow(RowB), LineNoise,
     LineDiePitch(4000, 4000), LineCenter(2000, 2000)}

HeaderLines ==
    {<< LineSampleSize, LineDiePitch(5000, 5000), LineDieOrigin,
        LineCenter(1000, 1000) >>,
     << LineSampleSize, LineDiePitch(5000, 5000), LineRow(RowB),
        LineCenter(1000, 1000) >>,
     << LineSampleSize, LineDieOrigin, LineCenter(1000, 1000) >>}

InitParser ==
    \E header \in HeaderLines, list \in SeqsUpTo(ListLines, MaxLines) :
       Constructed(
           OneWaferLot(WaferDir(1, header \o << LineDefectList >> \o list, {})),
           << SettingSE >>, TRUE)

\* Wafer directories that hold one recipe or two, and beside them a few
\* files to rename: split pages numbered 0, 1, 2, 10 and -1, and images
\* without legend of defects 0, 1, 2, 3 and of no defect.
MaxFiles == 2

SecondRecipe == << "r", "_", "1", ".", "0", "0", "1" >>

LegendFile(d, class) ==
    << "x", "_" >> \o d \o class \o << ".", "t", "i", "f", "f" >>

NamedFiles ==
    {output_file(p - 1) : p \in {0, 1, 2, 10}}
    \cup {<< "d", "a", "t", "a", "_", "p", "a", "g", "e", "_", "-", "1",
             ".", "t", "i", "f", "f" >>,
          LegendFile(<< "0" >>, ClassInternal),
          LegendFile(<< "1" >>, ClassInternal),
          LegendFile(<< "2" >>, ClassTopography \o << "2" >>),
          LegendFile(<< "3" >>, ClassInternal),
          LegendFile(<< "a" >>, << >>)}

NamedDir(recipes, names) ==
    [n \in {StackName} \cup DOMAIN recipes \cup names |->
        IF n = StackName THEN Image(<< 1 >>)
        ELSE IF n \in DOMAIN recipes THEN Text(RecipeOf(recipes[n]))
        ELSE Image(<< n >>)]

InitNames ==
    \E names \in {F \in SUBSET NamedFiles : Cardinality(F) <= MaxFiles},
       recipes \in {[n \in {RecipeName} |-> << RowA, RowC >>],
                    [n \in {RecipeName} |-> << RowA, RowB, RowC >>],
                    [n \in {RecipeName, SecondRecipe} |->
                        IF n = RecipeName THEN << RowA, RowC >>
                        ELSE << RowC, RowA >>]},
       table \in {CaptureCycle(1), CaptureCycle(2), CaptureCycle(4)} :
       Constructed(OneWaferLot(NamedDir(recipes, names)), table, TRUE)

\* Stacks of up to MaxDefects * MaxSettings pages, recipes and capture
\* cycles of every size within the bounds, for the viewer.
InitViewer ==
    \E P \in 1..(MaxDefects * MaxSettings),
       rows \in SeqsUpTo({RowA, RowB, RowC}, MaxDefects),
       n \in 0..MaxSettings :
       Constructed(OneWaferLot(WaferDir(P, RecipeOf(rows), {})),
                   CaptureCycle(n), TRUE)

\* Lots of folders named as the instrument names them: w01, w001 and w00
\* beside a folder 1 or a file 1 under the root, and w02 beside a folder 2
\* inside one of them.  Every folder holds a stack of its own.
FolderW01 == << "w", "0", "1" >>

FolderW001 == << "w", "0", "0", "1" >>

FolderW00 == << "w", "0", "0" >>

FolderW02 == << "w", "0", "2" >>

RawName == << "a", "_", "R", "a", "w", ".", "t", "i", "f", "f" >>

FolderLot(top, under, nested, files) ==
    LET paths == {<< t >> : t \in top} \cup {<< under, t >> : t \in nested}
        rank(p) == CHOOSE i \in 1..Cardinality(paths) :
                      i = Cardinality({q \in paths :
                              \/ Len(q) < Len(p)
                              \/ Len(q) = Len(p) /\ LexLess(q[Len(q)], p[Len(p)])
                              \/ q = p})
    IN  [p \in {dirname} \cup paths |->
            IF p = dirname
            THEN [n \in files |-> Text(<< >>)]
            ELSE [n \in {StackName, RawName} |->
                     IF n = StackName THEN Image(<< rank(p) >>)
                     ELSE Image(<< 0 >>)]]

InitFolders ==
    \E top \in SUBSET {FolderW01, FolderW001, FolderW00, Wafer1},
       nested \in SUBSET {FolderW02, Wafer2},
       files \in SUBSET {Wafer1} :
       \E under \in top :
          Constructed(FolderLot(top, under, nested, files), << SettingSE >>, TRUE)

----------------------------------------------------------------------------
(* Actions: one per method of Process.                                     *)

\* What the history records of a call: the method, the exception it raised,
\* the lot as it found it, what it logged (rename: the renames done;
\* split_tiff: the list returned), the methods run, and whether the call
\* before it was a call of the same method that returned.
Called(op, raised, log) ==
    [op |-> op, raised |-> raised, pre |-> fs, log |-> log,
     calls |-> << op >>,
     again |-> last.op = op /\ last.raised = "none",
     resumed |-> FALSE, want |-> None]

split_tiff ==
    LET output_dir == dirname \o << wafer_number >>
    IN  /\ output_dir \in DOMAIN fs
        /\ LET r == SplitTiff(fs[output_dir])
           IN  /\ fs' = [fs EXCEPT ![output_dir] = r.dir]
               /\ last' = Called("split_tiff", r.raised, r.output_files)
        /\ resume' = NoResume
        /\ UNCHANGED << settings, wafer_number, coordinates, posix, plot >>

rename ==
    LET output_dir == dirname \o << wafer_number >>
    IN  /\ output_dir \in DOMAIN fs
        /\ \E recipe_path \in RecipePaths(fs[output_dir]) :
              LET d == fs[output_dir]
                  r == Rename(d, recipe_path, settings, posix, tiff_files(d))
              IN  /\ fs' = [fs EXCEPT ![output_dir] = r.dir]
                  /\ coordinates' =
                        IF r.coordinates = None THEN coordinates
                        ELSE r.coordinates
                  /\ last' = [Called("rename", r.raised, r.log) EXCEPT
                                  !.resumed = resume.active,
                                  !.want = resume.want]
        /\ resume' = NoResume
        /\ UNCHANGED << settings, wafer_number, posix, plot >>

\* rename, the process killed after `limit` files have been renamed
rename_killed ==
    LET output_dir == dirname \o << wafer_number >>
    IN  /\ output_dir \in DOMAIN fs
        /\ \E recipe_path \in RecipePaths(fs[output_dir]) :
              LET d == fs[output_dir]
                  files == tiff_files(d)
                  whole == Rename(d, recipe_path, settings, posix, files)
              IN  \E limit \in 0..(Len(files) - 1) :
                     LET r == Rename(d, recipe_path, settings, posix,
                                     SubSeq(files, 1, limit))
                     IN  /\ r.raised = "none"
                         /\ fs' = [fs EXCEPT ![output_dir] = r.dir]
                         /\ coordinates' = r.coordinates
                         /\ last' = Called("rename_killed", "none", r.log)
                         /\ resume' =
                               IF resume.active THEN resume
                               ELSE [active |-> TRUE,
                                     want |-> Some([dir |-> whole.dir,
                                                    raised |-> whole.raised])]
        /\ UNCHANGED << settings, wafer_number, posix, plot >>

clean ==
    LET output_dir == dirname \o << wafer_number >>
    IN  /\ output_dir \in DOMAIN fs
        /\ fs' = [fs EXCEPT ![output_dir] = Clean(fs[output_dir])]
        /\ last' = Called("clean", "none", << >>)
        /\ resume' = NoResume
        /\ UNCHANGED << settings, wafer_number, coordinates, posix, plot >>

rename_all ==
    \E walk \in WalkFrom(DOMAIN fs, dirname), pick \in Picks(fs) :
        LET r == RenameAllLoop([fs |-> fs, raised |-> "none",
                                returned |-> FALSE, coordinates |-> coordinates,
                                log |-> << >>],
                               walk, pick, settings, posix)
        IN  /\ fs' = r.fs
            /\ coordinates' = r.coordinates
            /\ last' = Called("rename_all", r.raised, r.log)
            /\ resume' = NoResume
            /\ UNCHANGED << settings, wafer_number, posix, plot >>

clean_all ==
    \E walk \in WalkFrom(DOMAIN fs, dirname) :
        /\ fs' = CleanAllLoop(fs, walk)
        /\ last' = Called("clean_all", "none", << >>)
        /\ resume' = NoResume
        /\ UNCHANGED << settings, wafer_number, coordinates, posix, plot >>

split_tiff_all ==
    \E walk \in WalkFrom(DOMAIN fs, dirname) :
        LET r == SplitTiffAllLoop([fs |-> fs, raised |-> "none"], walk)
        IN  /\ fs' = r.fs
            /\ last' = Called("split_tiff_all", r.raised, << >>)
            /\ resume' = NoResume
            /\ UNCHANGED << settings, wafer_number, coordinates, posix, plot >>

organize_and_rename_files ==
    \E listing \in Orders(DOMAIN fs[dirname]) :
        LET r == Organize(fs, listing)
        IN  /\ fs' = r.fs
            /\ last' = Called("organize_and_rename_files", r.raised, << >>)
            /\ resume' = NoResume
            /\ UNCHANGED << settings, wafer_number, coordinates, posix, plot >>

\* the "Run function" button, with one of the functions selected: a new
\* Process object runs the methods of the function.  The history records
\* as `again` that the run before was a run of the same function that went
\* through
run_data_processing ==
    \E mode \in Modes :
        \E r \in RunSteps({[fs |-> fs, raised |-> "none", coordinates |-> None,
                            log |-> << >>, calls |-> << >>]},
                          Pipeline(mode), wafer_number, settings, posix) :
            /\ fs' = r.fs
            /\ coordinates' = r.coordinates
            /\ last' = [Called("run_data_processing", r.raised, r.log)
                            EXCEPT !.calls = r.calls,
                                   !.again = /\ last.op = "run_data_processing"
                                             /\ last.raised = "none"
                                             /\ last.calls = Pipeline(mode)]
            /\ resume' = NoResume
            /\ UNCHANGED << settings, wafer_number, posix, plot >>

\* a direct call of extract_positions on a recipe of the wafer directory
extract_positions ==
    LET output_dir == dirname \o << wafer_number >>
    IN  /\ output_dir \in DOMAIN fs
        /\ \E filepath \in matching_files(fs[output_dir]) :
              LET ex == ExtractFrom(fs[output_dir], Some(filepath))
              IN  /\ coordinates' =
                        IF ex.raised = "none" THEN Some(ex.table)
                        ELSE coordinates
                  /\ last' = Called("extract_positions", ex.raised, << >>)
        /\ resume' = NoResume
        /\ UNCHANGED << fs, settings, wafer_number, posix, plot >>

\* PlotFrame.open_tiff, for the wafer the Process object was made for
open_tiff ==
    LET folder_path == dirname \o << wafer_number >>
    IN  /\ folder_path \in DOMAIN fs
        /\ \E recipe_path \in RecipePaths(fs[folder_path]) :
              LET ex == PlotExtractFrom(fs[folder_path], recipe_path)
                  read == [plot EXCEPT !.coordinates = Some(ex.table)]
              IN  /\ plot' =
                        IF ex.raised # "none" THEN plot
                        ELSE IF StackName \notin DOMAIN fs[folder_path]
                        THEN read
                        ELSE LoadTiff(read, fs[folder_path][StackName])
                  /\ last' = Called("open_tiff", ex.raised, << >>)
        /\ resume' = NoResume
        /\ UNCHANGED << fs, settings, wafer_number, coordinates, posix >>

\* PlotFrame.on_click(event): the radio button checked (if any) is one of
\* the len(settings) image types; the click is off the axes, or on the
\* plotted position of a row of the table
on_click ==
    \E selected \in {None} \cup {Some(i) : i \in 0..(Len(settings) - 1)},
       inaxes \in BOOLEAN,
       point \in 0..(MaxDefects - 1) :
        /\ \/ point = 0
           \/ plot.coordinates # None /\ point < Len(plot.coordinates[1])
        /\ IF /\ selected # None
              /\ inaxes
              /\ plot.coordinates # None
              /\ plot.coordinates[1] # << >>
           THEN LET image_type == selected[1]
                    number_type == Len(settings)
                    closest_idx == ClosestIdx(plot.coordinates[1], point)
                    shown == [plot EXCEPT !.current_index =
                                 OnClickIndex(image_type, closest_idx,
                                              number_type)]
                IN  /\ plot' = shown
                    /\ last' = Called("on_click",
                                      IF ShowImageRaises(shown)
                                      THEN "IndexError" ELSE "none",
                                      << [image_type |-> image_type,
                                          closest_idx |-> closest_idx,
                                          number_type |-> number_type] >>)
           ELSE /\ plot' = plot
                /\ last' = Called("on_click", "none", << >>)
        /\ resume' = NoResume
        /\ UNCHANGED << fs, settings, wafer_number, coordinates, posix >>

rename_wo_legend ==
    LET wafer_path == dirname \o << wafer_number >>
    IN  /\ IF wafer_path \notin DOMAIN fs
           THEN /\ last' = Called("rename_wo_legend", "none", << >>)
                /\ UNCHANGED << fs, coordinates >>
           ELSE \E walk \in WalkFrom(DOMAIN fs, wafer_path),
                   listing \in Listings(fs),
                   recipe_path \in RecipePaths(fs[wafer_path]) :
                   LET r == RenameWoLegendWalk(
                                [fs |-> fs, raised |-> "none",
                                 returned |-> FALSE,
                                 coordinates |-> coordinates, log |-> << >>],
                                wafer_path, walk, listing, recipe_path,
                                FALSE, posix)
                   IN  /\ fs' = r.fs
                       /\ coordinates' = r.coordinates
                       /\ last' = Called("rename_wo_legend", r.raised, r.log)
        /\ resume' = NoResume
        /\ UNCHANGED << settings, wafer_number, posix, plot >>

rename_wo_legend_all ==
    \E walk \in WalkFrom(DOMAIN fs, dirname),
       listing \in Listings(fs),
       pick \in Picks(fs) :
       \E walks \in [DOMAIN fs -> UNION {WalkFrom(DOMAIN fs, p) : p \in DOMAIN fs}] :
          /\ \A p \in DOMAIN fs : walks[p] \in WalkFrom(DOMAIN fs, p)
          /\ LET folder_names ==
                     SelectSeq(walk, LAMBDA p : matching_files(fs[p]) # {})
                 r == RenameWoLegendAllLoop(
                          [fs |-> fs, raised |-> "none", returned |-> FALSE,
                           coordinates |-> coordinates, log |-> << >>],
                          folder_names, walks, listing, pick, posix)
             IN  /\ fs' = r.fs
                 /\ coordinates' = r.coordinates
                 /\ last' = Called("rename_wo_legend_all", r.raised, r.log)
          /\ resume' = NoResume
          /\ UNCHANGED << settings, wafer_number, posix, plot >>

clean_folders_and_files ==
    \E tree \in CleanFoldersFrom(fs, dirname) :
        /\ fs' = RemoveRaw(tree)
        /\ last' = Called("clean_folders_and_files", "none", << >>)
        /\ resume' = NoResume
        /\ UNCHANGED << settings, wafer_number, coordinates, posix, plot >>

Next ==
    \/ split_tiff
    \/ rename
    \/ clean
    \/ rename_all
    \/ clean_all

Spec == Init /\ [][Next]_vars

NextPositions == extract_positions

SpecPositions == InitPositions /\ [][NextPositions]_vars

NextRerun ==
    \/ split_tiff
    \/ rename
    \/ rename_killed

SpecRerun == InitRerun /\ [][NextRerun]_vars

NextLot ==
    \/ split_tiff
    \/ rename
    \/ split_tiff_all
    \/ rename_all
    \/ clean_all

SpecLot == InitLot /\ [][NextLot]_vars

NextParser ==
    \/ extract_positions
    \/ open_tiff

SpecParser == InitParser /\ [][NextParser]_vars

NextNames ==
    \/ rename
    \/ rename_wo_legend
    \/ rename_wo_legend_all

SpecNames == InitNames /\ [][NextNames]_vars

NextKeep ==
    \/ clean
    \/ split_tiff
    \/ rename
    \/ clean_all
    \/ split_tiff_all
    \/ rename_all

SpecKeep == InitKeep /\ [][NextKeep]_vars

NextViewer ==
    \/ open_tiff
    \/ on_click

SpecViewer == InitViewer /\ [][NextViewer]_vars

NextFolders == clean_folders_and_files

SpecFolders == InitFolders /\ [][NextFolders]_vars

NextApp ==
    \/ organize_and_rename_files
    \/ run_data_processing

SpecApp == InitApp /\ [][NextApp]_vars

----------------------------------------------------------------------------
(* Vocabulary of the properties.                                           *)

\* the wafer directory of the Process object
WaferPath == dirname \o << wafer_number >>

\* the wafer directory now, and as the last call found it
Now == fs[WaferPath]

Before == last.pre[WaferPath]

\* the defect rows of the recipe in directory d, in file order
RowLines(d) == SelectSeq(d[RecipeName].lines, LAMBDA l : l.k = "row")

\* the number of defects D of the recipe, the capture-cycle length N, and
\* the number of pages P of the merged stack
NumDefects(d) == Len(RowLines(d))

CycleLength == Len(settings)

NumPages(d) == Len(d[StackName].pages)

\* "data_page_<p>.tiff"
PageFile(p) ==
    << "d", "a", "t", "a", "_", "p", "a", "g", "e", "_" >> \o StrOfNat(p)
        \o << ".", "t", "i", "f", "f" >>

\* the page numbers whose split files d holds
PagesIn(d) == {p \in 1..(MaxPages + 1) : PageFile(p) \in DOMAIN d}

\* d is a directory as split_tiff leaves a fresh one: the stack, the recipe
\* and one page file per page of the stack
FreshlySplit(d) ==
    DOMAIN d = {StackName, RecipeName} \cup {PageFile(p) : p \in 1..NumPages(d)}

\* The corrected coordinates of the three defect rows under pitch 5000/5000
\* and center 1000/1000, as Python prints them:
\*   RowA: round(6000/10000, 1) = 0.6,   round(12000/10000, 1) = 1.2
\*   RowB: round(6040/10000, 1) = 0.6,   round(12010/10000, 1) = 1.2
\*   RowC: round(-400/10000, 1) = -0.0,  round(2500/10000, 1) = 0.2
PrintedX(row) ==
    IF row = RowC THEN << "-", "0", ".", "0" >> ELSE << "0", ".", "6" >>

PrintedY(row) ==
    IF row = RowC THEN << "0", ".", "2" >> ELSE << "1", ".", "2" >>

\* <scale>_<X>_<Y>_<image-type>.tif for page p of directory d: the defect at
\* index (p - 1) \div N of the recipe, the setting at index (p - 1) % N
OutputName(d, p) ==
    LET row == RowLines(d)[((p - 1) \div CycleLength) + 1].f
        setting == settings[((p - 1) % CycleLength) + 1]
    IN  setting.Scale \o << "_" >> \o PrintedX(row) \o << "_" >> \o PrintedY(row)
            \o << "_" >> \o setting.ImageType \o << ".", "t", "i", "f" >>

----------------------------------------------------------------------------
(* C1: for every capture-cycle length N >= 1 and page number p >= 1,       *)
(* rename and rename_all use defect_index = (p-1) // N and setting_index = *)
(* (p-1) % N: every file they rename has p - 1 = defect_index * N +        *)
(* setting_index with 0 <= setting_index < N, pages 1..N get defect 0 and  *)
(* settings 0..N-1 in order, page N+1 gets (1, 0), and the mapping is a    *)
(* bijection between pages 1..D*N and pairs (defect < D, setting < N).     *)

C1_PageMapping ==
    CycleLength >= 1 =>
        /\ last.op \in {"rename", "rename_all"} =>
              \A i \in 1..Len(last.log) :
                 LET e == last.log[i]
                 IN  e.file_number >= 1 =>
                        /\ 0 <= e.remainder /\ e.remainder < CycleLength
                        /\ e.file_number - 1
                              = e.csv_row_index * CycleLength + e.remainder
                        /\ e.file_number <= CycleLength =>
                              /\ e.csv_row_index = 0
                              /\ e.remainder = e.file_number - 1
                        /\ e.file_number = CycleLength + 1 =>
                              /\ e.csv_row_index = 1
                              /\ e.remainder = 0
        /\ \A D \in 0..(MaxDefects + 1) :
              /\ \A p \in 1..(D * CycleLength) :
                    /\ csv_row_index(p, CycleLength) \in 0..(D - 1)
                    /\ remainder(p, CycleLength) \in 0..(CycleLength - 1)
              /\ \A d \in 0..(D - 1), s \in 0..(CycleLength - 1) :
                    Cardinality({p \in 1..(D * CycleLength) :
                                    /\ csv_row_index(p, CycleLength) = d
                                    /\ remainder(p, CycleLength) = s}) = 1

\* rename has renamed pages 1, 2 and 3 under a cycle of two settings: page 3
\* is page N+1
C1_Witness ==
    /\ last.op = "rename"
    /\ CycleLength = 2
    /\ \E i \in 1..Len(last.log) :
          last.log[i].file_number = 3 /\ last.log[i].csv_row_index = 1

----------------------------------------------------------------------------
(* C2: after rename returns, every split page file data_page_<p> that      *)
(* existed before is gone and a file <scale>_<X>_<Y>_<image-type>.tif      *)
(* exists, (X, Y) the corrected coordinate of the defect at index          *)
(* (p-1) // N in recipe order, (scale, image-type) the setting at index    *)
(* (p-1) % N; it holds the page of one of the files that were given that   *)
(* name.                                                                   *)

C2_RenamedByMapping ==
    (last.op = "rename" /\ last.raised = "none") =>
        \A p \in PagesIn(Before) :
            /\ PageFile(p) \notin DOMAIN Now
            /\ OutputName(Before, p) \in DOMAIN Now
            /\ \E q \in PagesIn(Before) :
                  /\ OutputName(Before, q) = OutputName(Before, p)
                  /\ Now[OutputName(Before, p)] = Before[PageFile(q)]

\* rename has returned on a directory that held page 3, under two settings
C2_Witness ==
    /\ last.op = "rename"
    /\ last.raised = "none"
    /\ CycleLength = 2
    /\ 3 \in PagesIn(Before)

----------------------------------------------------------------------------
(* C3: for every defect row and every geometry with pitch and center       *)
(* present, extract_positions yields                                       *)
(*   x = round((row_offset + die_col*pitch_x - center_x) / 10000, 1),      *)
(*   y = round((col_offset + die_row*pitch_y - center_y) / 10000, 1),      *)
(* row_offset, col_offset, die_col, die_row the 2nd to 5th fields of the   *)
(* row: each coordinate has the sign of its numerator and is a tenth       *)
(* nearest to numerator / 10000, one table row per defect row in file      *)
(* order; and pitch 5000/5000, center 1000/1000, fields 2000, 3000, 1, 2   *)
(* give x = 0.6 and y = 1.2.                                               *)

\* the fields of the first line of the recipe in d that starts with keyword
KeywordFields(d, keyword) ==
    SelectSeq(d[RecipeName].lines, LAMBDA l : l.k = keyword /\ l.f # << >>)[1].f

\* whether some line of the recipe in d starting with keyword matched
HasKeyword(d, keyword) ==
    \E i \in 1..Len(d[RecipeName].lines) :
        d[RecipeName].lines[i].k = keyword /\ d[RecipeName].lines[i].f # << >>

\* c is round(n / 10000, 1): a tenth nearest to n / 10000, with n's sign
NearestTenth(c, n) ==
    /\ c.neg = (n < 0)
    /\ 1000 * c.mag - 500 <= (IF n < 0 THEN 0 - n ELSE n)
    /\ (IF n < 0 THEN 0 - n ELSE n) <= 1000 * c.mag + 500

C3_CorrectedCoordinate ==
    (/\ last.op = "extract_positions"
     /\ HasKeyword(Now, "DiePitch")
     /\ HasKeyword(Now, "SampleCenterLocation")) =>
        LET pitch == KeywordFields(Now, "DiePitch")
            center == KeywordFields(Now, "SampleCenterLocation")
            rows == RowLines(Now)
        IN  /\ last.raised = "none"
            /\ coordinates # None
            /\ Len(coordinates[1]) = Len(rows)
            /\ \A k \in 1..Len(rows) :
                  LET row == rows[k].f
                      x == coordinates[1][k].X
                      y == coordinates[1][k].Y
                  IN  /\ NearestTenth(x, row[2] + row[4] * pitch[1] - center[1])
                      /\ NearestTenth(y, row[3] + row[5] * pitch[2] - center[2])
                      /\ (/\ pitch = << 5000, 5000 >>
                          /\ center = << 1000, 1000 >>
                          /\ SubSeq(row, 2, 5) = << 2000, 3000, 1, 2 >>) =>
                            /\ x = [neg |-> FALSE, mag |-> 6]
                            /\ y = [neg |-> FALSE, mag |-> 12]

\* extract_positions has returned a table whose second row is the defect of
\* the coordinate scenario, under the scenario's geometry
C3_Witness ==
    /\ last.op = "extract_positions"
    /\ last.raised = "none"
    /\ HasKeyword(Now, "DiePitch")
    /\ HasKeyword(Now, "SampleCenterLocation")
    /\ KeywordFields(Now, "DiePitch") = << 5000, 5000 >>
    /\ KeywordFields(Now, "SampleCenterLocation") = << 1000, 1000 >>
    /\ Len(RowLines(Now)) = 2
    /\ RowLines(Now)[2].f = RowA
    /\ coordinates[1][2] = [X |-> [neg |-> FALSE, mag |-> 6],
                            Y |-> [neg |-> FALSE, mag |-> 12]]

----------------------------------------------------------------------------
(* C4: for every recipe in which no DiePitch line (or no                   *)
(* SampleCenterLocation line) is matched, coordinate correction fails with *)
(* an error and returns no table, whatever the number of defect rows.      *)

C4_MissingGeometryFails ==
    (/\ last.op = "extract_positions"
     /\ \/ ~HasKeyword(Now, "DiePitch")
        \/ ~HasKeyword(Now, "SampleCenterLocation")) =>
        last.raised # "none"

----------------------------------------------------------------------------
(* C5: round trip.  For every stack of P pages, P a multiple of the        *)
(* capture-cycle length N, split_tiff and then rename leave exactly P      *)
(* renamed output files: one per page, none lost, none left un-renamed.    *)
(* Stated on the stacks that hold exactly one cycle per defect of the      *)
(* recipe, P = D * N.                                                      *)

\* the files of the directory that the last call created
Created == (DOMAIN Now) \ (DOMAIN Before)

C5_RoundTrip ==
    (/\ last.op = "rename"
     /\ FreshlySplit(Before)
     /\ CycleLength >= 1
     /\ NumPages(Before) = NumDefects(Before) * CycleLength) =>
        /\ PagesIn(Now) = {}
        /\ Cardinality(Created) = NumPages(Before)

----------------------------------------------------------------------------
(* C6: whenever the number of split page files differs from (number of     *)
(* defects in the recipe) x N, more pages or fewer, rename surfaces an     *)
(* error instead of silently renaming a subset of the files.               *)

C6_CountMismatchRaises ==
    (/\ last.op = "rename"
     /\ FreshlySplit(Before)
     /\ NumPages(Before) # NumDefects(Before) * CycleLength) =>
        last.raised # "none"

----------------------------------------------------------------------------
(* C7: if the page-number token of one candidate file cannot be parsed,    *)
(* rename (and rename_all) skips that file and still renames every other   *)
(* well-formed page file of the directory; the malformed name never aborts *)
(* the batch.                                                              *)

C7_MalformedNameSkipped ==
    (/\ last.op \in {"rename", "rename_all"}
     /\ (DOMAIN Before) \cap {BadFirst, BadLast} # {}
     /\ CycleLength >= 1) =>
        /\ last.raised = "none"
        /\ \A p \in PagesIn(Before) :
              p <= NumDefects(Before) * CycleLength =>
                  PageFile(p) \notin DOMAIN Now

----------------------------------------------------------------------------
(* C8: after clean the directory holds only finished outputs: every split  *)
(* page file, every file whose name does not start with "data", and the    *)
(* recipe have been deleted, while every output <scale>_<X>_<Y>_<type>     *)
(* produced by rename is still present.                                    *)

\* the names that are neither the stack, the recipe, the notes nor a page
\* file, well-formed or not: the outputs of rename
Outputs(d) ==
    (DOMAIN d) \ ({StackName, RecipeName, NotesName, BadFirst, BadLast}
                      \cup {PageFile(p) : p \in PagesIn(d)})

C8_CleanLeavesOutputs ==
    last.op \in {"clean", "clean_all"} =>
        /\ PagesIn(Now) = {}
        /\ \A f \in DOMAIN Now : StartsWith(f, << "d", "a", "t", "a" >>)
        /\ RecipeName \notin DOMAIN Now
        /\ \A f \in Outputs(Before) : f \in DOMAIN Now

(* C8 as amended: after clean the directory holds no split page file and   *)
(* no output of rename; the merged stack, the recipe and the files that    *)
(* are not .tif/.tiff are still present, unchanged.                        *)

C8_CleanLeavesInputs ==
    last.op \in {"clean", "clean_all"} =>
        /\ PagesIn(Now) = {}
        /\ (DOMAIN Now) \cap {BadFirst, BadLast} = {}
        /\ Outputs(Now) = {}
        /\ DOMAIN Now = (DOMAIN Before) \cap {StackName, RecipeName, NotesName}
        /\ \A f \in DOMAIN Now : Now[f] = Before[f]

\* clean has run on a directory that held an output of rename, a split
\* page file and the notes
C8_Witness ==
    /\ last.op = "clean"
    /\ Outputs(Before) # {}
    /\ PagesIn(Before) # {}
    /\ NotesName \in DOMAIN Before
    /\ RecipeName \in DOMAIN Now

----------------------------------------------------------------------------
(* C9: rename is idempotent on an already-processed directory: a second    *)
(* rename on a directory where rename has returned renames, moves or       *)
(* deletes no file.                                                        *)

C9_RenameIdempotent ==
    (last.op = "rename" /\ last.again) => fs = last.pre

----------------------------------------------------------------------------
(* C10: interrupted re-entry.  If rename is killed after renaming a prefix *)
(* of the page files and is then run again, the directory ends as one      *)
(* uninterrupted rename would have left it.                                *)

C10_ResumeEqualsWhole ==
    (last.op = "rename" /\ last.resumed) => Now = last.want[1].dir

----------------------------------------------------------------------------
(* C11: an empty capture settings table is a fatal error detected before   *)
(* any filesystem mutation: for every directory state, rename / rename_all *)
(* with an empty settings list fails and has renamed no file in any wafer  *)
(* directory; likewise a geometry failure is raised before any file is     *)
(* renamed.                                                                *)

\* the exception a recipe without usable geometry ends in
GeometryFailure == "TypeError"

C11_EmptySettingsFatal ==
    /\ (last.op \in {"rename", "rename_all"} /\ settings = << >>) =>
           (last.raised # "none" /\ fs = last.pre)
    /\ (last.op \in {"rename", "rename_all"} /\ last.raised = GeometryFailure) =>
           fs = last.pre

----------------------------------------------------------------------------
(* Vocabulary of the batch properties.                                     *)

\* the directories of the lot below the root, at any depth
Subdirs == (DOMAIN last.pre) \ {dirname}

HasRecipe(d) == matching_files(d) # {}

\* the directories rename may leave for d, one per recipe glob may list first
RenamedDirs(d) ==
    {Rename(d, recipe_path, settings, posix, tiff_files(d)).dir :
        recipe_path \in RecipePaths(d)}

----------------------------------------------------------------------------
(* C12: the batch operations apply to every subdirectory of the lot root,  *)
(* immediate or nested, except the root, and each application acts on that *)
(* subdirectory's own files and recipe: after a rename_all that ended       *)
(* without error on a lot whose subdirectories all hold a recipe, every    *)
(* subdirectory is as rename leaves it; after clean_all every subdirectory *)
(* is as clean leaves it; the root is untouched.                           *)

C12_BatchActsOnEachSubdir ==
    /\ (/\ last.op = "rename_all"
        /\ last.raised = "none"
        /\ \A p \in Subdirs : HasRecipe(last.pre[p])) =>
           /\ \A p \in Subdirs : fs[p] \in RenamedDirs(last.pre[p])
           /\ fs[dirname] = last.pre[dirname]
    /\ last.op = "clean_all" =>
           /\ \A p \in Subdirs : fs[p] = Clean(last.pre[p])
           /\ fs[dirname] = last.pre[dirname]

----------------------------------------------------------------------------
(* C13: when a wafer directory lacks a recipe file, a rename operation on  *)
(* it, rename or rename_all, stops with a surfaced error; it never returns *)
(* silently as if it had succeeded.                                        *)

C13_MissingRecipeRaises ==
    /\ (/\ last.op = "rename"
        /\ WaferPath \in DOMAIN last.pre
        /\ ~HasRecipe(Before)) => last.raised # "none"
    /\ (/\ last.op = "rename_all"
        /\ \E p \in Subdirs : ~HasRecipe(last.pre[p])) => last.raised # "none"

----------------------------------------------------------------------------
(* C14: batch scenario.  For a lot root with three wafer subdirectories of *)
(* which exactly one lacks its recipe file, in every directory-walk order, *)
(* rename_all fully renames the page files of the other two wafers and     *)
(* reports exactly one failure, for the third.                             *)

\* d is a complete wafer directory, freshly split, with one page per
\* (defect, setting) pair and a recipe extract_positions accepts
Complete(d) ==
    /\ {StackName, RecipeName} \subseteq DOMAIN d
    /\ FreshlySplit(d)
    /\ NumDefects(d) >= 1
    /\ NumPages(d) = NumDefects(d) * CycleLength
    /\ ExtractPositions(d[RecipeName].lines).raised = "none"

\* every page file of the directory at p has been renamed by the last call
FullyRenamed(p) ==
    /\ PagesIn(fs[p]) = {}
    /\ Cardinality((DOMAIN fs[p]) \ (DOMAIN last.pre[p])) = NumPages(last.pre[p])

\* the failures the last call reported: its only channel is the exception
\* it ends with
Failures == IF last.raised = "none" THEN 0 ELSE 1

ThreeWafers == Subdirs = {<< Wafer1 >>, << Wafer2 >>, << Wafer3 >>}

C14_OneMissingRecipeOfThree ==
    (/\ last.op = "rename_all"
     /\ ThreeWafers
     /\ \E q \in Subdirs :
           /\ ~HasRecipe(last.pre[q])
           /\ \A p \in Subdirs \ {q} : Complete(last.pre[p])) =>
        /\ \A p \in Subdirs : HasRecipe(last.pre[p]) => FullyRenamed(p)
        /\ Failures = 1

----------------------------------------------------------------------------
(* C15: a parsing or coordinate-transform error in one wafer of a batch    *)
(* (missing geometry, an empty coordinate table) aborts only that wafer:   *)
(* rename_all proceeds to the remaining wafers, so every other wafer of    *)
(* the lot ends fully renamed.                                             *)

\* the recipe of d makes extract_positions raise, or yields an empty table
RecipeFails(d) ==
    /\ RecipeName \in DOMAIN d
    /\ LET ex == ExtractPositions(d[RecipeName].lines)
       IN  ex.raised # "none" \/ ex.table = << >>

C15_ErrorAbortsOneWafer ==
    (/\ last.op = "rename_all"
     /\ ThreeWafers
     /\ \E q \in Subdirs :
           /\ RecipeFails(last.pre[q])
           /\ \A p \in Subdirs \ {q} : Complete(last.pre[p])) =>
        \A p \in Subdirs : ~RecipeFails(last.pre[p]) => FullyRenamed(p)

----------------------------------------------------------------------------
(* C16: for every stack of P >= 1 pages, split_tiff writes and returns     *)
(* exactly P files, in page order, named data_page_1 through data_page_P:  *)
(* numbering starts at 1, is contiguous with no gaps and no duplicates,    *)
(* and the k-th emitted file holds the k-th page of the stack.  The loop   *)
(* of split_tiff_all writes the same files in every subdirectory.          *)

\* directory `after` is directory `before` plus one file per page of its
\* stack, the k-th named data_page_<k>.tiff and holding the k-th page
SplitOf(before, after) ==
    LET P == NumPages(before)
    IN  /\ DOMAIN after = (DOMAIN before) \cup {PageFile(k) : k \in 1..P}
        /\ \A k \in 1..P :
              after[PageFile(k)] = Image(<< before[StackName].pages[k] >>)
        /\ \A f \in DOMAIN before :
              f \notin {PageFile(k) : k \in 1..P} => after[f] = before[f]

HasStack(d) == StackName \in DOMAIN d /\ d[StackName].pages # << >>

----------------------------------------------------------------------------
(* C17: split fails with an error whenever the source stack is missing or  *)
(* unreadable; it never reports a missing stack as a normal, successful    *)
(* result.                                                                 *)

C17_MissingStackRaises ==
    /\ (/\ last.op = "split_tiff"
        /\ WaferPath \in DOMAIN last.pre
        /\ ~HasStack(Before)) => last.raised # "none"
    /\ (/\ last.op = "split_tiff_all"
        /\ \E p \in Subdirs : ~HasStack(last.pre[p])) => last.raised # "none"

----------------------------------------------------------------------------
(* C18: organize moves each loose file directly under the lot root whose   *)
(* name has the form ..._<token>.<ext> into the subdirectory               *)
(* lot_root/<token>/ (created if absent) under a canonical name, so that   *)
(* afterwards no such loose .tif or .001 file remains under the root and   *)
(* each one is found under the subdirectory named by its trailing token.   *)

IsLooseTif(f) == EndsWith(Lower(f), << ".", "t", "i", "f" >>)

IsLooseRecipe(f) == EndsWith(f, << ".", "0", "0", "1" >>)

\* the name without its extension of three characters
Stem(f) == SubSeq(f, 1, Len(f) - 4)

\* the token after the last "_" of the stem
TrailingToken(f) ==
    LET stem == Stem(f)
        i == CHOOSE k \in 1..Len(stem) :
                 stem[k] = "_" /\ \A j \in (k + 1)..Len(stem) : stem[j] # "_"
    IN  SubSeq(stem, i + 1, Len(stem))

\* f is a .tif or .001 name that ends in _<token>.<ext>, the token not empty
EncodesWafer(f) ==
    /\ IsLooseTif(f) \/ IsLooseRecipe(f)
    /\ \E k \in 1..Len(Stem(f)) : Stem(f)[k] = "_"
    /\ TrailingToken(f) # << >>

C18_OrganizeMovesLoose ==
    last.op = "organize_and_rename_files" =>
        \A f \in DOMAIN last.pre[dirname] :
            EncodesWafer(f) =>
                /\ f \notin DOMAIN fs[dirname]
                /\ << TrailingToken(f) >> \in DOMAIN fs
                /\ LET sub == fs[<< TrailingToken(f) >>]
                       canonical == IF IsLooseTif(f) THEN StackName ELSE f
                   IN  /\ canonical \in DOMAIN sub
                       /\ sub[canonical] = last.pre[dirname][f]

----------------------------------------------------------------------------
(* C19: clean is idempotent: for every directory state, running clean a    *)
(* second time immediately after clean deletes nothing and leaves the      *)
(* directory unchanged.                                                    *)

C19_CleanIdempotent ==
    (last.op = "clean" /\ last.again) => fs = last.pre

\* clean has run twice in a row on a directory that had been split and
\* renamed, and holds no page file any more
C19_Witness ==
    /\ last.op = "clean"
    /\ last.again
    /\ coordinates # None
    /\ NumPages(Now) >= 2
    /\ PagesIn(Now) = {}

----------------------------------------------------------------------------
(* C20: in every pipeline the application runs, clean executes only after  *)
(* splitting and renaming have succeeded, never before them: no run of the *)
(* "split and rename" function, per wafer or per lot, invokes clean or     *)
(* clean_all ahead of split_tiff / rename.                                 *)

Cleaners == {"clean", "clean_all"}

Workers == {"split_tiff", "rename", "split_tiff_all", "rename_all"}

C20_CleanOnlyAfterWork ==
    last.op = "run_data_processing" =>
        \A i, j \in 1..Len(last.calls) :
            (last.calls[i] \in Cleaners /\ last.calls[j] \in Workers) => j < i

(* C20 as amended: in every run of the "split and rename" function, per    *)
(* wafer or per lot, clean (clean_all) is the first method run, ahead of   *)
(* organize, split_tiff and rename, and it is never run after them.        *)

C20_CleanBeforeWork ==
    (/\ last.op = "run_data_processing"
     /\ \E j \in 1..Len(last.calls) : last.calls[j] \in Workers) =>
        /\ last.calls[1] \in Cleaners
        /\ \A i \in 2..Len(last.calls) : last.calls[i] \notin Cleaners

\* a run of "split and rename" that went through its four methods and
\* renamed a page
C20_Witness ==
    /\ last.op = "run_data_processing"
    /\ last.calls = << "clean", "organize_and_rename_files", "split_tiff",
                     "rename" >>
    /\ last.raised = "none"
    /\ Len(last.log) >= 1

----------------------------------------------------------------------------
(* C21: the geometry used for the correction comes only from the lines     *)
(* before the DefectList line: a SampleSize, DiePitch, DieOrigin or        *)
(* SampleCenterLocation line after it changes nothing.  So the outcome of  *)
(* extract_positions is the one the header geometry gives: a failure when  *)
(* the header lacks the pitch or the centre and a row is kept, and         *)
(* otherwise a table whose rows are corrected with the header's values.    *)

\* the recipe of the wafer directory as the last call found it
RecipeLines == Before[RecipeName].lines

\* the index of the first DefectList line (beyond the end when there is none)
ListStart(lines) ==
    IF \E i \in 1..Len(lines) : lines[i].k = "DefectList"
    THEN CHOOSE i \in 1..Len(lines) :
            /\ lines[i].k = "DefectList"
            /\ \A j \in 1..(i - 1) : lines[j].k # "DefectList"
    ELSE Len(lines) + 1

HeaderOf(lines) == SubSeq(lines, 1, ListStart(lines) - 1)

ListOf(lines) == SubSeq(lines, ListStart(lines) + 1, Len(lines))

\* the lines of `lines` that start with keyword and match its expression
Matching(lines, keyword) ==
    SelectSeq(lines, LAMBDA l : l.k = keyword /\ l.f # << >>)

\* the fields of the last of them
LastFields(lines, keyword) ==
    Matching(lines, keyword)[Len(Matching(lines, keyword))].f

\* the lines of the defect list that start with an integer and whitespace,
\* and those of them with at least 18 tokens
ListRows(lines) == SelectSeq(ListOf(lines), LAMBDA l : l.k = "row")

FullRows(lines) == SelectSeq(ListOf(lines), LAMBDA l : l.k = "row" /\ l.n >= 18)

\* table is the rows corrected with the given pitch and centre
CorrectedWith(table, rows, pitch, center) ==
    /\ Len(table) = Len(rows)
    /\ \A k \in 1..Len(rows) :
          /\ table[k].X = Round1(rows[k].f[2] + rows[k].f[4] * pitch[1] - center[1])
          /\ table[k].Y = Round1(rows[k].f[3] + rows[k].f[5] * pitch[2] - center[2])

C21_GeometryFromHeaderOnly ==
    last.op = "extract_positions" =>
        LET header == HeaderOf(RecipeLines)
            rows == FullRows(RecipeLines)
        IN  IF rows = << >> THEN last.raised = "none"
            ELSE IF \/ Matching(header, "DiePitch") = << >>
                    \/ Matching(header, "SampleCenterLocation") = << >>
            THEN last.raised # "none"
            ELSE /\ last.raised = "none"
                 /\ CorrectedWith(coordinates[1], rows,
                                  LastFields(header, "DiePitch"),
                                  LastFields(header, "SampleCenterLocation"))

----------------------------------------------------------------------------
(* C22: when extract_positions returns, the rows of its table are the      *)
(* lines after the DefectList line that begin with a decimal integer and   *)
(* whitespace, every one of them and in file order (the k-th such line is  *)
(* row k - 1), and no line before the DefectList line is a row.            *)

\* the table is made of the given lines, in order, under the geometry the
\* file gives last
TableOf(rows) ==
    /\ coordinates # None
    /\ Len(coordinates[1]) = Len(rows)
    /\ rows # << >> =>
          CorrectedWith(coordinates[1], rows,
                        LastFields(RecipeLines, "DiePitch"),
                        LastFields(RecipeLines, "SampleCenterLocation"))

C22_EveryRowLineInOrder ==
    (last.op = "extract_positions" /\ last.raised = "none") =>
        TableOf(ListRows(RecipeLines))

\* As the code has it: the rows are those of these lines that have at least
\* 18 whitespace-separated tokens; a shorter one is dropped.
C22_FullRowLinesInOrder ==
    (last.op = "extract_positions" /\ last.raised = "none") =>
        TableOf(FullRows(RecipeLines))

\* extract_positions has returned on a recipe with a row-like line before
\* the DefectList line, and after it a full row, a short row and another
\* full row
C22_Witness ==
    /\ last.op = "extract_positions"
    /\ last.raised = "none"
    /\ \E i \in 1..Len(HeaderOf(RecipeLines)) : HeaderOf(RecipeLines)[i].k = "row"
    /\ ListOf(RecipeLines) = << LineRow(RowC), LineShortRow(RowB), LineRow(RowA) >>
    /\ Len(coordinates[1]) = 2
    /\ coordinates[1][2] = [X |-> [neg |-> FALSE, mag |-> 6],
                            Y |-> [neg |-> FALSE, mag |-> 12]]

----------------------------------------------------------------------------
(* C24: Process.extract_positions and PlotFrame.extract_positions are      *)
(* equivalent: on every recipe both fail, or both return the same ordered  *)
(* table.  The viewer's open_tiff has read the recipe with the latter; the *)
(* former, on the same file, gives the same outcome.                       *)

C24_ViewerParsesAsProcess ==
    last.op = "open_tiff" =>
        LET ex == ExtractPositions(RecipeLines)
        IN  /\ last.raised = ex.raised
            /\ ex.raised = "none" => plot.coordinates = Some(ex.table)

\* open_tiff has read a recipe with a full row, a short row and a late
\* DiePitch line, and shows one point
C24_Witness ==
    /\ last.op = "open_tiff"
    /\ last.raised = "none"
    /\ \E i \in 1..Len(ListOf(RecipeLines)) :
          ListOf(RecipeLines)[i] = LineDiePitch(4000, 4000)
    /\ \E i \in 1..Len(ListOf(RecipeLines)) :
          ListOf(RecipeLines)[i] = LineShortRow(RowB)
    /\ plot.coordinates # None
    /\ Len(plot.coordinates[1]) = 1

\* open_tiff has failed on a recipe without a DiePitch line
C24_WitnessFailure ==
    /\ last.op = "open_tiff"
    /\ last.raised = "TypeError"
    /\ plot.coordinates = None

----------------------------------------------------------------------------
(* C23: rename is deterministic: it takes the page files in lexicographic  *)
(* order, and the directory it leaves is a function of the directory it    *)
(* found and of the settings alone, also when the directory holds more     *)
(* than one .001 file or pages with two-digit numbers.  So whichever of    *)
(* the .001 files is read, the outcome is the one the call had.            *)

C23_RenameDeterministic ==
    last.op = "rename" =>
        \A recipe_path \in RecipePaths(Before) :
            LET r == Rename(Before, recipe_path, settings, posix,
                            tiff_files(Before))
            IN  /\ r.dir = Now
                /\ r.raised = last.raised

----------------------------------------------------------------------------
(* C25: no rename operation looks up a coordinate index outside 0..D-1:    *)
(* rename, rename_wo_legend and rename_wo_legend_all rename a file only    *)
(* with an index in that range (a file numbered 0 or below is never given  *)
(* another defect's coordinates) and none fails on an index out of range.  *)

C25_IndexInRange ==
    last.op \in {"rename", "rename_wo_legend", "rename_wo_legend_all"} =>
        /\ last.raised # "IndexError"
        /\ \A i \in 1..Len(last.log) :
              /\ 0 <= last.log[i].csv_row_index
              /\ last.log[i].csv_row_index < Len(coordinates[1])

----------------------------------------------------------------------------
(* C26: organize_and_rename_files never loses a file: each .tif or .001    *)
(* file that existed before the call still exists afterwards, with its     *)
(* content, somewhere under the root; also when two loose files share a    *)
(* trailing token or the target subdirectory already holds a data.tif.     *)

\* the content c is that of some file under the root of tree
Kept(tree, c) == \E q \in DOMAIN tree : \E g \in DOMAIN tree[q] : tree[q][g] = c

C26_OrganizeLosesNothing ==
    last.op = "organize_and_rename_files" =>
        \A p \in DOMAIN last.pre :
            \A f \in DOMAIN last.pre[p] :
                (IsLooseTif(f) \/ IsLooseRecipe(f)) => Kept(fs, last.pre[p][f])

----------------------------------------------------------------------------
(* C27: clean, split_tiff, rename and their batch variants never delete,   *)
(* rename or overwrite the merged stack data.tif or a recipe .001 file:    *)
(* every step of them leaves each such file in its directory, under its    *)
(* name and with its content, so both are present in every reachable       *)
(* state.                                                                  *)

IsInput(n) == n = StackName \/ EndsWith(n, << ".", "0", "0", "1" >>)

C27_InputsKept ==
    [][\A p \in DOMAIN fs :
          \A n \in DOMAIN fs[p] :
              IsInput(n) =>
                  /\ p \in DOMAIN fs'
                  /\ n \in DOMAIN fs'[p]
                  /\ fs'[p][n] = fs[p][n]]_vars

\* clean has removed the outputs of a rename, and the stack and the recipe
\* are where they were
C27_Witness ==
    /\ last.op = "clean"
    /\ \E f \in DOMAIN Before : ~Contains(f, << "p", "a", "g", "e" >>)
                                   /\ f \notin DOMAIN Now
    /\ StackName \in DOMAIN Now
    /\ RecipeName \in DOMAIN Now

----------------------------------------------------------------------------
(* C28: the per-wafer "split and rename" pipeline (clean, organize,        *)
(* split_tiff, rename) is idempotent as a whole: run on a wafer directory  *)
(* that holds data.tif and its recipe, and then run again, it leaves the   *)
(* directory with the same set of file names as after the first run.       *)

SplitRename == << "clean", "organize_and_rename_files", "split_tiff", "rename" >>

\* the last call is a run of "split and rename" that follows a completed one
SecondSplitRename ==
    /\ last.op = "run_data_processing"
    /\ last.again
    /\ Len(last.calls) >= 2
    /\ last.calls = SubSeq(SplitRename, 1, Len(last.calls))

C28_PipelineIdempotent ==
    (/\ SecondSplitRename
     /\ WaferPath \in DOMAIN last.pre
     /\ StackName \in DOMAIN Before
     /\ Cardinality(matching_files(Before)) = 1) =>
        /\ WaferPath \in DOMAIN fs
        /\ DOMAIN Now = DOMAIN Before

\* the second run has split the stack and renamed its pages again
C28_Witness ==
    /\ SecondSplitRename
    /\ last.calls = SplitRename
    /\ last.raised = "none"
    /\ Len(last.log) = 2
    /\ Cardinality(matching_files(Before)) = 1
    /\ \E f \in DOMAIN Before : f \notin {StackName, RecipeName}

----------------------------------------------------------------------------
(* C29: the viewer and the renamer agree on the page mapping.  With image  *)
(* type s of N selected, a click that resolves to table index d makes      *)
(* on_click show the stack image of index s + d * N, which is              *)
(* page_number - 1 for the one page that rename maps to (d, s); and the    *)
(* index is within the image list whenever the stack holds D * N pages.    *)

----------------------------------------------------------------------------
(* C30: clean_folders_and_files renames a folder w0*<digits> to <digits>   *)
(* exactly when no entry of that name exists in the same parent, never     *)
(* overwriting or merging a folder; after it returns no folder matching    *)
(* w0*<digits> remains anywhere under the root, at any depth, unless its   *)
(* target name is taken.                                                   *)

\* every folder there was is still there, with its stack, and no other
FoldersKept ==
    /\ Cardinality(DOMAIN fs) = Cardinality(DOMAIN last.pre)
    /\ \A p \in DOMAIN last.pre \ {dirname} :
          \E q \in DOMAIN fs \ {dirname} :
              /\ Len(q) = Len(p)
              /\ fs[q][StackName] = last.pre[p][StackName]

\* the folders left under a name w0*<digits> whose target name is free
LeftUnrenamed ==
    {q \in DOMAIN fs \ {dirname} :
        /\ FolderMatch(Basename(q))
        /\ ~PathExists(fs, SubSeq(q, 1, Len(q) - 1),
                       FolderNewName(Basename(q)))}

C30_FoldersRenamed ==
    last.op = "clean_folders_and_files" =>
        /\ FoldersKept
        /\ LeftUnrenamed = {}

====
